---------------------------- MODULE Spec2Model ----------------------------
(***************************************************************************)
(* SerDeLite: a ByteBuffer (a non-owning view over fixed-capacity memory), *)
(* the ByteStream binary codec layered on it and the JsonStream text       *)
(* builder writing into the same buffer.                                   *)
(*                                                                         *)
(* Representation.  A C++ unsigned integer of w bits is the sequence of    *)
(* its w/8 base-256 digits, least significant digit first, so that         *)
(* (val >> 8*k) & 0xFF is val[k+1] and a 64-bit value never has to fit     *)
(* into one TLC integer.  A signed integer, a float and a double are the   *)
(* digit sequence of their bit pattern (the code itself moves them through *)
(* static_cast<uintN_t> and memcpy).  The backing memory `bytes` is a      *)
(* sequence of `capacity` bytes; the C++ index i is bytes[i+1].            *)
(***************************************************************************)
EXTENDS Integers, Sequences, FiniteSets, TLC

(* ------------------------------ bounds --------------------------------- *)
\* The two buffer capacities a run may be constructed with.
SmallCap == 3
MaxCap == 10
\* Calls per run: of the binary codec, of the JSON builder, of both together.
MaxOps == 3
MaxJsonOps == 3
MaxAllOps == 2
MaxSignOps == 3
MaxEscOps == 1
MaxPrettyOps == 4
MaxPeekOps == 3
MaxHexOps == 3
MaxNullOps == 3
MaxFloatOps == 3
MaxCursorOps == 3
MaxFifoOps == 6
MaxRepeatOps == 4
MaxWrapOps == 3
MaxKeyOps == 2
MaxTopOps == 2
FifoLen == 3
\* The two capacities a run of the JSON builder may be constructed with.
JsonSmallCap == 12
JsonMaxCap == 48

VARIABLES
    bytes,          \* ByteBuffer::bytes, the caller's memory (capacity bytes)
    length,         \* ByteBuffer::length
    capacity,       \* ByteBuffer::capacity
    order,          \* ByteBuffer::order, "Big" or "Little"
    readPos,        \* ByteStream::readPos
    isFirstField,   \* JsonStream::isFirstField
    isClosed,       \* JsonStream::isClosed
    last,           \* the last call: its name, argument, result and pre-state
    wlog,           \* the primitive writes still in place, by start index
    jlog,           \* the calls made on the JsonStream, in order
    nops,           \* calls made so far
    limit           \* calls a run may make

vars == <<bytes, length, capacity, order, readPos, isFirstField, isClosed,
          last, wlog, jlog, nops, limit>>

\* The program state as one record, the argument of every modelled method.
S == [bytes |-> bytes, length |-> length, capacity |-> capacity,
      order |-> order, readPos |-> readPos,
      isFirstField |-> isFirstField, isClosed |-> isClosed]

\* What a call gives back: the state it leaves, its return value, its out-parameter.
Res(s, ret, out) == [s |-> s, ret |-> ret, out |-> out]

NoVal == <<>>

(* --------------------------- digit sequences --------------------------- *)
\* The function f on 1..n as the tuple <<f[1], ..., f[n]>>: every digit
\* sequence and every memory image is kept in this one form.
RECURSIVE AsTuple(_, _)
AsTuple(f, n) == IF n = 0 THEN <<>> ELSE Append(AsTuple(f, n - 1), f[n])

Zeros(n) == AsTuple([k \in 1..n |-> 0], n)

\* static_cast<uint64_t>(v) of an unsigned value of Len(v) bytes: zero extension.
ToU64(v) == v \o Zeros(8 - Len(v))

\* static_cast<uintN_t>(v), N = bitSize: the low bitSize/8 digits.
Truncate(v, bitSize) == SubSeq(v, 1, bitSize \div 8)

(* ------------------------------ ByteBuffer ----------------------------- *)
\* isFull with its comparison weakened to length > capacity.
isFull_late(s) == s.length > s.capacity

isFull(s) == s.length >= s.capacity

getSpaceLeft(s) == s.capacity - s.length

getSize(s) == s.length

addByte(s, byte) ==
    IF isFull(s)
    THEN Res(s, FALSE, NoVal)
    ELSE Res([s EXCEPT !.bytes[s.length + 1] = byte, !.length = s.length + 1],
             TRUE, NoVal)

setLength(s, newLength) ==
    IF newLength > s.capacity
    THEN Res(s, FALSE, NoVal)
    ELSE Res([s EXCEPT !.length = newLength], TRUE, NoVal)

\* clear() that also zero-fills, as erase() does.
clear_zero(s) ==
    Res([s EXCEPT !.bytes = Zeros(s.capacity), !.length = 0], TRUE, NoVal)

\* clear leaving the length as it is.
clear_noop(s) == Res(s, TRUE, NoVal)

clear(s) == Res([s EXCEPT !.length = 0], TRUE, NoVal)

erase(s) == Res([s EXCEPT !.bytes = Zeros(s.capacity), !.length = 0], TRUE, NoVal)

\* getByte(index, outByte): out is <<byte>> on success.
getByte(s, index) ==
    IF index >= s.length
    THEN Res(s, FALSE, NoVal)
    ELSE Res(s, TRUE, <<s.bytes[index + 1]>>)

\* A loop `for each b of seq: buffer.addByte(b)` whose results are ignored.
RECURSIVE AddBytes(_, _)
AddBytes(s, seq) ==
    IF seq = <<>> THEN s
    ELSE AddBytes(addByte(s, Head(seq)).s, Tail(seq))

\* hexToNibble(c): 255 for a character that is no hex digit.
hexToNibble(c) ==
    IF c >= 48 /\ c <= 57 THEN c - 48
    ELSE IF c >= 97 /\ c <= 102 THEN c - 97 + 10
    ELSE IF c >= 65 /\ c <= 70 THEN c - 65 + 10
    ELSE 255

\* hexStr[i] of the C string hexStr, i from 0: the terminator 0 at its end.
CharAt(str, i) == IF i < Len(str) THEN str[i + 1] ELSE 0

\* The while loop of fromHex without `this->length = startLen`.
RECURSIVE FromHexLoop_keep(_, _, _, _)
FromHexLoop_keep(s, hexStr, i, startLen) ==
    LET c == CharAt(hexStr, i)
        high == hexToNibble(c)
        low == hexToNibble(CharAt(hexStr, i + 1))
        a == addByte(s, high * 16 + low)
    IN  IF c = 0 THEN Res(s, TRUE, NoVal)
        ELSE IF c = 32 \/ c = 58 \/ c = 45
             THEN FromHexLoop_keep(s, hexStr, i + 1, startLen)
        ELSE IF CharAt(hexStr, i + 1) = 0 THEN Res(s, FALSE, NoVal)
        ELSE IF high > 15 \/ low > 15 THEN Res(s, FALSE, NoVal)
        ELSE IF ~a.ret THEN Res(a.s, FALSE, NoVal)
        ELSE FromHexLoop_keep(a.s, hexStr, i + 2, startLen)

\* The while loop of fromHex from index i on.
RECURSIVE FromHexLoop(_, _, _, _)
FromHexLoop(s, hexStr, i, startLen) ==
    LET c == CharAt(hexStr, i)
        high == hexToNibble(c)
        low == hexToNibble(CharAt(hexStr, i + 1))
        a == addByte(s, high * 16 + low)
        fail(x) == Res([x EXCEPT !.length = startLen], FALSE, NoVal)
    IN  IF c = 0 THEN Res(s, TRUE, NoVal)
        ELSE IF c = 32 \/ c = 58 \/ c = 45 THEN FromHexLoop(s, hexStr, i + 1, startLen)
        ELSE IF CharAt(hexStr, i + 1) = 0 THEN fail(s)
        ELSE IF high > 15 \/ low > 15 THEN fail(s)
        ELSE IF ~a.ret THEN fail(a.s)
        ELSE FromHexLoop(a.s, hexStr, i + 2, startLen)

fromHex(s, hexStr) ==
    IF hexStr = <<-1>> THEN Res(s, FALSE, NoVal)
    ELSE FromHexLoop(s, hexStr, 0, s.length)

(* ------------------------------ ByteStream ----------------------------- *)
\* canRead off by one: it admits a read that ends one byte past the size.
canRead_loose(s, bytesCount) == (s.readPos + bytesCount) <= getSize(s) + 1

canRead(s, bytesCount) == (s.readPos + bytesCount) <= getSize(s)

\* canWrite off by one: it refuses a write that fills the buffer exactly.
canWrite_strict(s, bytesCount) == getSpaceLeft(s) > bytesCount

canWrite(s, bytesCount) == getSpaceLeft(s) >= bytesCount

\* WireBytes ignoring the endian order: always least significant byte first.
WireBytes_little(val, bitSize, ord) ==
    AsTuple([k \in 1..(bitSize \div 8) |-> val[k]], bitSize \div 8)

\* The bytes of val in wire order: i runs from bitSize-8 down to 0 (Big) or
\* from 0 up to bitSize-8 (Little), each step appending (val >> i) & 0xFF.
WireBytes(val, bitSize, ord) ==
    LET n == bitSize \div 8
    IN  AsTuple([k \in 1..n |-> IF ord = "Big" THEN val[n - k + 1] ELSE val[k]], n)

\* writeBits taking the loop of the other order.
writeBits_swapped(s, val, bitSize) ==
    IF bitSize = 0 \/ (bitSize % 8) # 0 THEN Res(s, FALSE, NoVal)
    ELSE IF ~canWrite(s, bitSize \div 8) THEN Res(s, FALSE, NoVal)
    ELSE Res(AddBytes(s, WireBytes(val, bitSize,
                                   IF s.order = "Big" THEN "Little" ELSE "Big")),
             TRUE, NoVal)

writeBits(s, val, bitSize) ==
    IF bitSize = 0 \/ (bitSize % 8) # 0 THEN Res(s, FALSE, NoVal)
    ELSE IF ~canWrite(s, bitSize \div 8) THEN Res(s, FALSE, NoVal)
    ELSE Res(AddBytes(s, WireBytes(val, bitSize, s.order)), TRUE, NoVal)

\* The loop of readBits from its k-th iteration on: getByte(readPos++), a
\* failed getByte restoring readPos to initReadPos; value |= byte << i sets
\* one digit of value.
RECURSIVE ReadLoop(_, _, _, _, _)
ReadLoop(s, value, k, n, initReadPos) ==
    IF k > n THEN Res(s, TRUE, value)
    ELSE LET g == getByte(s, s.readPos)
             s1 == [s EXCEPT !.readPos = s.readPos + 1]
             d == IF s.order = "Big" THEN n - k + 1 ELSE k
         IN  IF ~g.ret
             THEN Res([s EXCEPT !.readPos = initReadPos], FALSE, NoVal)
             ELSE ReadLoop(s1, [value EXCEPT ![d] = g.out[1]], k + 1, n, initReadPos)

\* readBits giving the value back without moving readPos.
readBits_peek(s, bitSize) ==
    IF bitSize = 0 \/ (bitSize % 8) # 0 THEN Res(s, FALSE, NoVal)
    ELSE IF ~canRead(s, bitSize \div 8) THEN Res(s, FALSE, NoVal)
    ELSE Res(s, TRUE, ReadLoop(s, Zeros(8), 1, bitSize \div 8, s.readPos).out)

readBits(s, bitSize) ==
    IF bitSize = 0 \/ (bitSize % 8) # 0 THEN Res(s, FALSE, NoVal)
    ELSE IF ~canRead(s, bitSize \div 8) THEN Res(s, FALSE, NoVal)
    ELSE ReadLoop(s, Zeros(8), 1, bitSize \div 8, s.readPos)

(* Common.h: interpretAsSigned.  signBit is bit bitSize-1 of num; valueMask
   is every bit from bitSize up; dest = num, or num | valueMask when the
   sign bit is set.  Returned as Res(_, ret, dest), dest 8 digits. *)
Pow2(b) == CASE b = 0 -> 1 [] b = 1 -> 2 [] b = 2 -> 4 [] b = 3 -> 8
             [] b = 4 -> 16 [] b = 5 -> 32 [] b = 6 -> 64 [] b = 7 -> 128

BitSet(d, b) == (d \div Pow2(b)) % 2 = 1

\* interpretAsSigned without the extension of the sign bit.
interpretAsSigned_plain(num, bitSize) ==
    IF bitSize = 0 \/ bitSize > 64 THEN [ret |-> FALSE, dest |-> NoVal]
    ELSE [ret |-> TRUE, dest |-> num]

interpretAsSigned(num, bitSize) ==
    IF bitSize = 0 \/ bitSize > 64 THEN [ret |-> FALSE, dest |-> NoVal]
    ELSE LET sign == BitSet(num[((bitSize - 1) \div 8) + 1], (bitSize - 1) % 8)
             masked == AsTuple([k \in 1..8 |->
                                  IF 8 * (k - 1) >= bitSize THEN 255
                                  ELSE IF 8 * k <= bitSize THEN num[k]
                                  ELSE (num[k] % Pow2(bitSize % 8))
                                       + (256 - Pow2(bitSize % 8))], 8)
         IN  [ret |-> TRUE, dest |-> IF sign THEN masked ELSE num]

(* ---------------------- ByteStream: write primitives ------------------- *)
writeUint8(s, val) == addByte(s, val[1])

writeUint16(s, val) == writeBits(s, ToU64(Truncate(val, 16)), 16)

writeUint32(s, val) == writeBits(s, ToU64(Truncate(val, 32)), 32)

writeUint64(s, val) == writeBits(s, val, 64)

writeInt8(s, val) == writeBits(s, ToU64(Truncate(val, 8)), 8)

writeInt16(s, val) == writeBits(s, ToU64(Truncate(val, 16)), 16)

writeInt32(s, val) == writeBits(s, ToU64(Truncate(val, 32)), 32)

writeInt64(s, val) == writeBits(s, val, 64)

\* memcpy(&bits, &val, sizeof(float)): val is given as its bit pattern.
writeFloat(s, val) == writeBits(s, ToU64(val), 32)

writeDouble(s, val) == writeUint64(s, val)

writeBool(s, val) == writeUint8(s, IF val THEN <<1>> ELSE <<0>>)

(* ---------------------- ByteStream: read primitives -------------------- *)
readUint8(s) ==
    IF ~canRead(s, 1) THEN Res(s, FALSE, NoVal)
    ELSE LET g == getByte(s, s.readPos)
         IN  IF g.ret
             THEN Res([s EXCEPT !.readPos = s.readPos + 1], TRUE, g.out)
             ELSE Res(s, FALSE, NoVal)

readUint16(s) ==
    IF ~canRead(s, 2) THEN Res(s, FALSE, NoVal)
    ELSE LET r == readBits(s, 16)
         IN  IF ~r.ret THEN Res(r.s, FALSE, NoVal)
             ELSE Res(r.s, TRUE, Truncate(r.out, 16))

readUint32(s) ==
    IF ~canRead(s, 4) THEN Res(s, FALSE, NoVal)
    ELSE LET r == readBits(s, 32)
         IN  IF ~r.ret THEN Res(r.s, FALSE, NoVal)
             ELSE Res(r.s, TRUE, Truncate(r.out, 32))

readUint64(s) ==
    IF ~canRead(s, 8) THEN Res(s, FALSE, NoVal)
    ELSE LET r == readBits(s, 64)
         IN  IF ~r.ret THEN Res(r.s, FALSE, NoVal)
             ELSE Res(r.s, TRUE, r.out)

\* out = static_cast<int8_t>(val): the byte itself (sVal is computed and unused).
readInt8(s) ==
    IF ~canRead(s, 1) THEN Res(s, FALSE, NoVal)
    ELSE LET r == readUint8(s)
         IN  IF ~r.ret THEN Res(r.s, FALSE, NoVal)
             ELSE Res(r.s, TRUE, Truncate(ToU64(r.out), 8))

readInt16(s) ==
    IF ~canRead(s, 2) THEN Res(s, FALSE, NoVal)
    ELSE LET r == readUint16(s)
         IN  IF ~r.ret THEN Res(r.s, FALSE, NoVal)
             ELSE Res(r.s, TRUE,
                      Truncate(interpretAsSigned(ToU64(r.out), 16).dest, 16))

readInt32(s) ==
    IF ~canRead(s, 4) THEN Res(s, FALSE, NoVal)
    ELSE LET r == readUint32(s)
         IN  IF ~r.ret THEN Res(r.s, FALSE, NoVal)
             ELSE Res(r.s, TRUE,
                      Truncate(interpretAsSigned(ToU64(r.out), 32).dest, 32))

readInt64(s) ==
    IF ~canRead(s, 8) THEN Res(s, FALSE, NoVal)
    ELSE LET r == readUint64(s)
         IN  IF ~r.ret THEN Res(r.s, FALSE, NoVal)
             ELSE Res(r.s, TRUE, r.out)

readFloat(s) ==
    IF ~canRead(s, 4) THEN Res(s, FALSE, NoVal)
    ELSE LET r == readUint32(s)
         IN  IF ~r.ret THEN Res(r.s, FALSE, NoVal)
             ELSE Res(r.s, TRUE, r.out)

readDouble(s) ==
    IF ~canRead(s, 8) THEN Res(s, FALSE, NoVal)
    ELSE LET r == readUint64(s)
         IN  IF ~r.ret THEN Res(r.s, FALSE, NoVal)
             ELSE Res(r.s, TRUE, r.out)

\* out is a BOOLEAN: (val != 0).
readBool(s) ==
    LET r == readUint8(s)
    IN  IF ~r.ret THEN Res(r.s, FALSE, NoVal)
        ELSE Res(r.s, TRUE, r.out[1] # 0)

\* resetReadCursor that also resets the length.
resetReadCursor_both(s) == Res([s EXCEPT !.readPos = 0, !.length = 0], TRUE, NoVal)

resetReadCursor(s) == Res([s EXCEPT !.readPos = 0], TRUE, NoVal)

(* ------------------- ByteStream: characters and strings ---------------- *)
\* A C string is the sequence of its characters (1..255) before the
\* terminator, so that strlen(str) is Len(str); the null pointer is Null.
Null == <<-1>>

strlen(str) == Len(str)

\* The two digits of static_cast<uint16_t>(n), n < 65536.
U16(n) == <<n % 256, (n \div 256) % 256>>

\* The number a 16-bit digit sequence stands for.
U16Value(v) == v[1] + 256 * v[2]

UINT16_MAX_VALUE == 65535

\* writeChars(str, length) copies str[0..length-1]; length <= strlen(str).
writeChars(s, str, len) ==
    IF str = Null THEN Res(s, FALSE, NoVal)
    ELSE IF ~canWrite(s, len) THEN Res(s, FALSE, NoVal)
    ELSE Res(AddBytes(s, SubSeq(str, 1, len)), TRUE, NoVal)

\* writeString without its space test and without its rollback.
writeString_norollback(s, str) ==
    IF str = Null THEN writeUint16(s, U16(0))
    ELSE LET w1 == writeUint16(s, U16(strlen(str)))
             w2 == writeChars(w1.s, str, strlen(str))
         IN  IF ~w1.ret THEN Res(w1.s, FALSE, NoVal) ELSE Res(w2.s, w2.ret, NoVal)

writeString(s, str) ==
    IF str = Null THEN writeUint16(s, U16(0))
    ELSE LET len == strlen(str)
             startLen == getSize(s)
             w1 == writeUint16(s, U16(len))
             w2 == writeChars(w1.s, str, len)
         IN  IF len > UINT16_MAX_VALUE \/ ~canWrite(s, 2 + len)
             THEN Res(s, FALSE, NoVal)
             ELSE IF ~w1.ret THEN Res(setLength(w1.s, startLen).s, FALSE, NoVal)
             ELSE IF ~w2.ret THEN Res(setLength(w2.s, startLen).s, FALSE, NoVal)
             ELSE Res(w2.s, TRUE, NoVal)

\* The loop of readChars: readUint8(byte) (its result ignored), dest[i] = byte.
\* dest is the characters stored so far.
RECURSIVE ReadCharsLoop(_, _, _)
ReadCharsLoop(s, dest, n) ==
    IF n = 0 THEN Res(s, TRUE, dest)
    ELSE LET r == readUint8(s)
         IN  ReadCharsLoop(r.s, dest \o (IF r.ret THEN r.out ELSE <<0>>), n - 1)

\* readChars(dest, length), dest a valid destination: out is what it holds.
readChars(s, len) ==
    IF ~canRead(s, len) THEN Res(s, FALSE, NoVal)
    ELSE ReadCharsLoop(s, <<>>, len)

\* readString storing no terminator after the characters.
readString_unterminated(s, destCapacity) ==
    LET r == readUint16(s)
        len == U16Value(r.out)
        c == readChars(r.s, len)
    IN  IF ~r.ret THEN Res(r.s, FALSE, NoVal)
        ELSE IF destCapacity < len + 1 THEN Res(r.s, FALSE, NoVal)
        ELSE IF ~c.ret THEN Res(c.s, FALSE, NoVal)
        ELSE Res(c.s, TRUE, c.out)

\* readString giving the prefix back when the destination is too small.
readString_restoring(s, destCapacity) ==
    LET r == readUint16(s)
        len == U16Value(r.out)
        c == readChars(r.s, len)
    IN  IF ~r.ret THEN Res(r.s, FALSE, NoVal)
        ELSE IF destCapacity < len + 1 THEN Res(s, FALSE, NoVal)
        ELSE IF ~c.ret THEN Res(c.s, FALSE, NoVal)
        ELSE Res(c.s, TRUE, c.out \o <<0>>)

\* readString(dest, destCapacity), dest a valid destination: out is the
\* characters stored and the terminator 0 after them.
readString(s, destCapacity) ==
    LET r == readUint16(s)
        len == U16Value(r.out)
        c == readChars(r.s, len)
    IN  IF ~r.ret THEN Res(r.s, FALSE, NoVal)
        ELSE IF destCapacity < len + 1 THEN Res(r.s, FALSE, NoVal)
        ELSE IF ~c.ret THEN Res(c.s, FALSE, NoVal)
        ELSE Res(c.s, TRUE, c.out \o <<0>>)

(* ----------------------- ByteStream: library header -------------------- *)
\* Version.h: 0x53444C56 ("SDLV"), least significant digit first.
SERDELITE_MAGIC == <<86, 76, 68, 83>>
SERDELITE_VERSION_MAJOR == 1
SERDELITE_VERSION_MINOR == 1
SERDELITE_VERSION_PATCH == 0

\* writeLibraryHeader with the minor and patch bytes exchanged.
writeLibraryHeader_swapped(s) ==
    IF ~canWrite(s, 7) THEN Res(s, FALSE, NoVal)
    ELSE LET s1 == writeUint32(s, SERDELITE_MAGIC).s
             s2 == writeUint8(s1, <<SERDELITE_VERSION_MAJOR>>).s
             s3 == writeUint8(s2, <<SERDELITE_VERSION_PATCH>>).s
             s4 == writeUint8(s3, <<SERDELITE_VERSION_MINOR>>).s
         IN  Res(s4, TRUE, NoVal)

writeLibraryHeader(s) ==
    IF ~canWrite(s, 7) THEN Res(s, FALSE, NoVal)
    ELSE LET s1 == writeUint32(s, SERDELITE_MAGIC).s
             s2 == writeUint8(s1, <<SERDELITE_VERSION_MAJOR>>).s
             s3 == writeUint8(s2, <<SERDELITE_VERSION_MINOR>>).s
             s4 == writeUint8(s3, <<SERDELITE_VERSION_PATCH>>).s
         IN  Res(s4, TRUE, NoVal)

\* verifyLibraryHeader leaving the cursor after a header of another major
\* version.
verifyLibraryHeader_norestore(s) ==
    IF ~canRead(s, 7) THEN Res(s, FALSE, NoVal)
    ELSE LET startPos == s.readPos
             back(x) == Res([x EXCEPT !.readPos = startPos], FALSE, NoVal)
             m == readUint32(s)
             maj == readUint8(m.s)
             min == readUint8(maj.s)
             pat == readUint8(min.s)
         IN  IF ~m.ret \/ m.out # SERDELITE_MAGIC THEN back(m.s)
             ELSE IF ~maj.ret \/ ~min.ret \/ ~pat.ret THEN back(pat.s)
             ELSE IF maj.out[1] # SERDELITE_VERSION_MAJOR THEN Res(pat.s, FALSE, NoVal)
             ELSE Res(pat.s, TRUE, NoVal)

\* verifyLibraryHeader insisting on its own minor version as well.
verifyLibraryHeader_strict(s) ==
    IF ~canRead(s, 7) THEN Res(s, FALSE, NoVal)
    ELSE LET startPos == s.readPos
             back(x) == Res([x EXCEPT !.readPos = startPos], FALSE, NoVal)
             m == readUint32(s)
             maj == readUint8(m.s)
             min == readUint8(maj.s)
             pat == readUint8(min.s)
         IN  IF ~m.ret \/ m.out # SERDELITE_MAGIC THEN back(m.s)
             ELSE IF ~maj.ret \/ ~min.ret \/ ~pat.ret THEN back(pat.s)
             ELSE IF maj.out[1] # SERDELITE_VERSION_MAJOR
                     \/ min.out[1] # SERDELITE_VERSION_MINOR THEN back(pat.s)
             ELSE Res(pat.s, TRUE, NoVal)

verifyLibraryHeader(s) ==
    IF ~canRead(s, 7) THEN Res(s, FALSE, NoVal)
    ELSE LET startPos == s.readPos
             back(x) == Res([x EXCEPT !.readPos = startPos], FALSE, NoVal)
             m == readUint32(s)
             maj == readUint8(m.s)
             min == readUint8(maj.s)
             pat == readUint8(min.s)
         IN  IF ~m.ret \/ m.out # SERDELITE_MAGIC THEN back(m.s)
             ELSE IF ~maj.ret THEN back(maj.s)
             ELSE IF ~min.ret THEN back(min.s)
             ELSE IF ~pat.ret THEN back(pat.s)
             ELSE IF maj.out[1] # SERDELITE_VERSION_MAJOR THEN back(pat.s)
             ELSE Res(pat.s, TRUE, NoVal)

(* ------------------- ByteStream: serializable objects ------------------ *)
\* examples/nested_binary.cpp: Item {uint16 id; uint8 quantity} and
\* Inventory {uint32 ownerId; Item slotA; Item slotB}.
Item(id, quantity) == [cls |-> "Item", id |-> id, quantity |-> quantity]

Inventory(ownerId, slotA, slotB) ==
    [cls |-> "Inventory", ownerId |-> ownerId, slotA |-> slotA, slotB |-> slotB]

Item_byteSize(obj) == 2 + 1

Inventory_byteSize(obj) == 4 + Item_byteSize(obj.slotA) + Item_byteSize(obj.slotB)

\* s.writeUint16(id) && s.writeUint8(quantity)
Item_toByteStream(s, obj) ==
    LET a == writeUint16(s, obj.id)
        b == writeUint8(a.s, obj.quantity)
    IN  IF ~a.ret THEN Res(a.s, FALSE, NoVal) ELSE Res(b.s, b.ret, NoVal)

\* s.readUint16(id) && s.readUint8(quantity); out is the object afterwards.
Item_fromByteStream(s, obj) ==
    LET a == readUint16(s)
        o1 == [obj EXCEPT !.id = a.out]
        b == readUint8(a.s)
    IN  IF ~a.ret THEN Res(a.s, FALSE, obj)
        ELSE IF ~b.ret THEN Res(b.s, FALSE, o1)
        ELSE Res(b.s, TRUE, [o1 EXCEPT !.quantity = b.out])

RECURSIVE writeObject(_, _), readObject(_, _)

\* s.writeUint32(ownerId) && s.writeObject(slotA) && s.writeObject(slotB)
Inventory_toByteStream(s, obj) ==
    LET a == writeUint32(s, obj.ownerId)
        b == writeObject(a.s, obj.slotA)
        c == writeObject(b.s, obj.slotB)
    IN  IF ~a.ret THEN Res(a.s, FALSE, NoVal)
        ELSE IF ~b.ret THEN Res(b.s, FALSE, NoVal)
        ELSE Res(c.s, c.ret, NoVal)

\* Inventory::fromByteStream reading slotB before slotA.
Inventory_fromByteStream_swapped(s, obj) ==
    LET a == readUint32(s)
        o1 == [obj EXCEPT !.ownerId = a.out]
        b == readObject(a.s, obj.slotB)
        o2 == [o1 EXCEPT !.slotB = b.out]
        c == readObject(b.s, obj.slotA)
    IN  IF ~a.ret THEN Res(a.s, FALSE, obj)
        ELSE IF ~b.ret THEN Res(b.s, FALSE, o2)
        ELSE Res(c.s, c.ret, [o2 EXCEPT !.slotA = c.out])

\* s.readUint32(ownerId) && s.readObject(slotA) && s.readObject(slotB)
Inventory_fromByteStream(s, obj) ==
    LET a == readUint32(s)
        o1 == [obj EXCEPT !.ownerId = a.out]
        b == readObject(a.s, obj.slotA)
        o2 == [o1 EXCEPT !.slotA = b.out]
        c == readObject(b.s, obj.slotB)
    IN  IF ~a.ret THEN Res(a.s, FALSE, obj)
        ELSE IF ~b.ret THEN Res(b.s, FALSE, o2)
        ELSE Res(c.s, c.ret, [o2 EXCEPT !.slotB = c.out])

\* return obj.toByteStream(*this): the virtual call.
writeObject(s, obj) ==
    IF obj.cls = "Item" THEN Item_toByteStream(s, obj)
    ELSE Inventory_toByteStream(s, obj)

\* return obj.fromByteStream(*this)
readObject(s, obj) ==
    IF obj.cls = "Item" THEN Item_fromByteStream(s, obj)
    ELSE Inventory_fromByteStream(s, obj)

(* ------------------------------ JsonStream ----------------------------- *)
\* Characters are their byte values.
LBRACE == 123
RBRACE == 125
COMMA == 44
QUOTE == 34
COLON == 58
BACKSLASH == 92
TXT_null == <<110, 117, 108, 108>>
TXT_true == <<116, 114, 117, 101>>
TXT_false == <<102, 97, 108, 115, 101>>

\* JsonStream(_buffer): isFirstField(true), isClosed(false), addByte('{').
JsonStream(s) ==
    addByte([s EXCEPT !.isFirstField = TRUE, !.isClosed = FALSE], LBRACE).s

Json_canWrite(s, bytesCount) == getSpaceLeft(s) >= bytesCount

writeRaw(s, str, len) ==
    IF ~Json_canWrite(s, len) THEN Res(s, FALSE, NoVal)
    ELSE Res(AddBytes(s, SubSeq(str, 1, len)), TRUE, NoVal)

\* A call that failed: the state it left, false.
Fail(r) == Res(r.s, FALSE, NoVal)

\* startField, continued after each of its writes (c: the comma, q: the
\* opening quote, k: the key).
startField_colon(k) ==
    IF ~k.ret THEN Fail(k) ELSE writeRaw(k.s, <<QUOTE, COLON>>, 2)

startField_key(q, key) ==
    IF ~q.ret THEN Fail(q) ELSE startField_colon(writeRaw(q.s, key, strlen(key)))

\* startField_quote without `isFirstField = false`.
startField_quote_keep(c, key) ==
    IF ~c.ret THEN Fail(c) ELSE startField_key(addByte(c.s, QUOTE), key)

startField_quote(c, key) ==
    IF ~c.ret THEN Fail(c)
    ELSE startField_key(addByte([c.s EXCEPT !.isFirstField = FALSE], QUOTE), key)

\* startField without its isClosed test.
startField_open(s, key) ==
    IF key = Null THEN Res(s, FALSE, NoVal)
    ELSE startField_quote(IF ~s.isFirstField THEN addByte(s, COMMA)
                          ELSE Res(s, TRUE, NoVal), key)

startField(s, key) ==
    IF s.isClosed \/ key = Null THEN Res(s, FALSE, NoVal)
    ELSE startField_quote(IF ~s.isFirstField THEN addByte(s, COMMA)
                          ELSE Res(s, TRUE, NoVal), key)

\* close() after its addByte('}'): raw[getSize()] = '\0' when
\* getSize() < getCapacity(), then isClosed = true.
close_terminate(a) ==
    IF ~a.ret THEN Fail(a)
    ELSE IF getSize(a.s) < a.s.capacity
         THEN Res([a.s EXCEPT !.bytes[getSize(a.s) + 1] = 0, !.isClosed = TRUE],
                  TRUE, NoVal)
    ELSE Res([a.s EXCEPT !.isClosed = TRUE], TRUE, NoVal)

\* close() without its test of isClosed.
close_again(s) == close_terminate(addByte(s, RBRACE))

close(s) ==
    IF s.isClosed THEN Res(s, TRUE, NoVal) ELSE close_terminate(addByte(s, RBRACE))

(* snprintf("%llu") and snprintf("%lld") of a 64-bit value given as 8 digits:
   the decimal digits by repeated division by 10, most significant first. *)
IsZero(v) == \A k \in 1..Len(v) : v[k] = 0

\* Division of the digit sequence v by 10 from digit k down, carrying rem:
\* <<quotient digits, remainder>>.
RECURSIVE DivMod10(_, _, _)
DivMod10(v, k, rem) ==
    IF k = 0 THEN <<v, rem>>
    ELSE LET cur == rem * 256 + v[k]
         IN  DivMod10([v EXCEPT ![k] = cur \div 10], k - 1, cur % 10)

RECURSIVE DecimalDigits(_)
DecimalDigits(v) ==
    IF IsZero(v) THEN <<>>
    ELSE LET qr == DivMod10(v, Len(v), 0)
         IN  DecimalDigits(qr[1]) \o <<48 + qr[2]>>

FormatLlu(v) == IF IsZero(v) THEN <<48>> ELSE DecimalDigits(v)

\* The two's complement of v: every digit inverted, plus one.
RECURSIVE AddOne(_, _)
AddOne(v, k) ==
    IF k > Len(v) THEN v
    ELSE IF v[k] = 255 THEN AddOne([v EXCEPT ![k] = 0], k + 1)
    ELSE [v EXCEPT ![k] = v[k] + 1]

Negate(v) == AddOne(AsTuple([k \in 1..Len(v) |-> 255 - v[k]], Len(v)), 1)

FormatLld(v) == IF v[8] >= 128 THEN <<45>> \o FormatLlu(Negate(v)) ELSE FormatLlu(v)

\* static_cast<uint64_t>(val) of a signed val of Len(v) bytes: sign extension.
SignedToU64(v) ==
    v \o AsTuple([k \in 1..(8 - Len(v)) |-> IF v[Len(v)] >= 128 THEN 255 ELSE 0],
                 8 - Len(v))

\* The rollback of a failed value write: setLength(startLen), false.
Rollback(w, startLen) ==
    IF ~w.ret THEN Res(setLength(w.s, startLen).s, FALSE, NoVal) ELSE w

\* writeIntBits after startField (f), temp the formatted number.
writeIntBits_value(f, temp, startLen) ==
    IF ~f.ret THEN Fail(f)
    ELSE IF Len(temp) >= 24 THEN Res(setLength(f.s, startLen).s, FALSE, NoVal)
    ELSE Rollback(writeRaw(f.s, temp, Len(temp)), startLen)

writeIntBits(s, key, val, bitSize, isSigned) ==
    IF bitSize = 0 \/ bitSize > 64 \/ bitSize % 8 # 0 THEN Res(s, FALSE, NoVal)
    ELSE writeIntBits_value(startField(s, key),
                            IF isSigned
                            THEN FormatLld(interpretAsSigned(val, bitSize).dest)
                            ELSE FormatLlu(val),
                            getSize(s))

Json_writeUint8(s, key, val) == writeIntBits(s, key, ToU64(val), 8, FALSE)
Json_writeUint16(s, key, val) == writeIntBits(s, key, ToU64(val), 16, FALSE)
Json_writeUint32(s, key, val) == writeIntBits(s, key, ToU64(val), 32, FALSE)
Json_writeUint64(s, key, val) == writeIntBits(s, key, val, 64, FALSE)
Json_writeInt8(s, key, val) == writeIntBits(s, key, SignedToU64(val), 8, TRUE)
Json_writeInt16(s, key, val) == writeIntBits(s, key, SignedToU64(val), 16, TRUE)
Json_writeInt32(s, key, val) == writeIntBits(s, key, SignedToU64(val), 32, TRUE)
Json_writeInt64(s, key, val) == writeIntBits(s, key, SignedToU64(val), 64, TRUE)

\* isfinite(val) on the bit pattern: the exponent field is not all ones.
isfiniteFloat(val) == ~(val[4] % 128 = 127 /\ val[3] >= 128)
isfiniteDouble(val) == ~(val[8] % 128 = 127 /\ val[7] \div 16 = 15)

\* snprintf("%.9g") and snprintf("%.17g") of the finite values the calls
\* are made with: 1.5f and 1.5 print as 1.5, 0.0 prints as 0.
FloatText(val) ==
    CASE val = <<0, 0, 192, 63>> -> <<49, 46, 53>>
      [] val = <<0, 0, 0, 0, 0, 0, 248, 63>> -> <<49, 46, 53>>
      [] IsZero(val) -> <<48>>

\* writeFloat and writeDouble writing nan for a value that is not finite.
writeFloat_value_nan(f, finite, temp, startLen) ==
    IF ~f.ret THEN Fail(f)
    ELSE IF ~finite THEN Rollback(writeRaw(f.s, <<110, 97, 110>>, 3), startLen)
    ELSE IF Len(temp) >= 32 THEN Res(setLength(f.s, startLen).s, FALSE, NoVal)
    ELSE Rollback(writeRaw(f.s, temp, Len(temp)), startLen)

\* writeFloat and writeDouble after startField (f): null for a value that is
\* not finite, else temp, the formatted number of at most sizeof(temp)-1 = 31
\* characters.
writeFloat_value(f, finite, temp, startLen) ==
    IF ~f.ret THEN Fail(f)
    ELSE IF ~finite THEN Rollback(writeRaw(f.s, TXT_null, 4), startLen)
    ELSE IF Len(temp) >= 32 THEN Res(setLength(f.s, startLen).s, FALSE, NoVal)
    ELSE Rollback(writeRaw(f.s, temp, Len(temp)), startLen)

Json_writeFloat(s, key, val) ==
    writeFloat_value(startField(s, key), isfiniteFloat(val),
                     IF isfiniteFloat(val) THEN FloatText(val) ELSE NoVal, getSize(s))

Json_writeDouble(s, key, val) ==
    writeFloat_value(startField(s, key), isfiniteDouble(val),
                     IF isfiniteDouble(val) THEN FloatText(val) ELSE NoVal, getSize(s))

\* writeBool after startField (f).
writeBool_value(f, val) ==
    IF ~f.ret THEN Fail(f)
    ELSE IF val THEN writeRaw(f.s, TXT_true, 4) ELSE writeRaw(f.s, TXT_false, 5)

Json_writeBool(s, key, val) == writeBool_value(startField(s, key), val)

HexChar(n) == IF n < 10 THEN 48 + n ELSE 55 + n

\* writeEscaped copying every character but the quote.
EscapeOf_copy(c) == IF c = QUOTE THEN <<BACKSLASH, QUOTE>> ELSE <<c>>

\* What writeEscaped emits for one character, and whether by writeRaw (an
\* escape, pre-checked as a whole) or by a single addByte.
EscapeOf(c) ==
    CASE c = QUOTE -> <<BACKSLASH, QUOTE>>
      [] c = BACKSLASH -> <<BACKSLASH, BACKSLASH>>
      [] c = 10 -> <<BACKSLASH, 110>>
      [] c = 9 -> <<BACKSLASH, 116>>
      [] c = 13 -> <<BACKSLASH, 114>>
      [] c = 8 -> <<BACKSLASH, 98>>
      [] c = 12 -> <<BACKSLASH, 102>>
      [] OTHER -> IF c < 32
                  THEN <<BACKSLASH, 117, 48, 48, HexChar((c \div 16) % 16), HexChar(c % 16)>>
                  ELSE <<c>>

\* One iteration of writeEscaped's loop: an escape goes through writeRaw,
\* any other character through addByte.
WriteEscapedChar(s, e) ==
    IF Len(e) = 1 THEN addByte(s, e[1]) ELSE writeRaw(s, e, Len(e))

\* The while loop of writeEscaped, w the write of the character before str:
\* it stops at the first failed write.
RECURSIVE EscapeLoop(_, _)
EscapeLoop(w, str) ==
    IF ~w.ret THEN Fail(w)
    ELSE IF str = <<>> THEN w
    ELSE EscapeLoop(WriteEscapedChar(w.s, EscapeOf(Head(str))), Tail(str))

writeEscaped(s, str) == Rollback(EscapeLoop(Res(s, TRUE, NoVal), str), getSize(s))

\* writeString, continued after startField (f), the opening quote (q) and
\* writeEscaped (e).
writeString_close(e) == IF ~e.ret THEN Fail(e) ELSE addByte(e.s, QUOTE)

writeString_escaped(q, val) ==
    IF ~q.ret THEN Fail(q) ELSE writeString_close(writeEscaped(q.s, val))

writeString_value(f, val) ==
    IF ~f.ret THEN Fail(f)
    ELSE IF val = Null THEN writeRaw(f.s, TXT_null, 4)
    ELSE writeString_escaped(addByte(f.s, QUOTE), val)

Json_writeString(s, key, val) == writeString_value(startField(s, key), val)

(* examples/nested_json.cpp: Stats {int32 level; int32 xp} and
   NPC {char name[32]; Stats stats}. *)
Stats(level, xp) == [cls |-> "Stats", level |-> level, xp |-> xp]
NPC(name, stats) == [cls |-> "NPC", name |-> name, stats |-> stats]

KEY_level == <<108, 101, 118, 101, 108>>
KEY_xp == <<120, 112>>
KEY_name == <<110, 97, 109, 101>>
KEY_stats == <<115, 116, 97, 116, 115>>

\* a && b, b the call made on the state a left.
Stats_xp(a, obj) ==
    IF ~a.ret THEN Fail(a) ELSE Json_writeInt32(a.s, KEY_xp, obj.xp)

\* s.writeInt32("level", level) && s.writeInt32("xp", xp)
Stats_serializeToJson(s, obj) ==
    Stats_xp(Json_writeInt32(s, KEY_level, obj.level), obj)

RECURSIVE Json_writeObject(_, _, _)

NPC_stats(a, obj) ==
    IF ~a.ret THEN Fail(a) ELSE Json_writeObject(a.s, KEY_stats, obj.stats)

\* s.writeString("name", name) && s.writeObject("stats", stats)
NPC_serializeToJson(s, obj) ==
    NPC_stats(Json_writeString(s, KEY_name, obj.name), obj)

\* The virtual call serializeToJson(stream).
serializeToJson(s, obj) ==
    IF obj.cls = "Stats" THEN Stats_serializeToJson(s, obj)
    ELSE NPC_serializeToJson(s, obj)

\* toJson returning what serializeToJson returned, without the close.
toJson_open(r) == r

\* JsonSerializable::toJson, r the result of serializeToJson.
toJson_close(r) == IF ~r.ret THEN Fail(r) ELSE close(r.s)

toJson(s, obj) == toJson_close(serializeToJson(s, obj))

\* writeObject leaving the child's flags in place after a successful toJson.
writeObject_keep(child, startLen, parentFirst, parentClosed) ==
    IF ~child.ret
    THEN Res([setLength(child.s, startLen).s EXCEPT !.isFirstField = parentFirst,
                                                    !.isClosed = parentClosed],
             FALSE, NoVal)
    ELSE child

\* writeObject after obj.toJson (child): the rollback and the parent's flags.
writeObject_restore(child, startLen, parentFirst, parentClosed) ==
    IF ~child.ret
    THEN Res([setLength(child.s, startLen).s EXCEPT !.isFirstField = parentFirst,
                                                    !.isClosed = parentClosed],
             FALSE, NoVal)
    ELSE Res([child.s EXCEPT !.isFirstField = parentFirst,
                             !.isClosed = parentClosed], TRUE, NoVal)

\* writeObject after addByte('{') (b): the parent's flags are saved, the
\* child starts with isFirstField = true and isClosed = false.
writeObject_child(b, obj, startLen) ==
    IF ~b.ret THEN Res(setLength(b.s, startLen).s, FALSE, NoVal)
    ELSE writeObject_restore(
             toJson([b.s EXCEPT !.isFirstField = TRUE, !.isClosed = FALSE], obj),
             startLen, b.s.isFirstField, b.s.isClosed)

\* writeObject after startField (f).
writeObject_brace(f, obj, startLen) ==
    IF ~f.ret THEN Fail(f)
    ELSE writeObject_child(addByte(f.s, LBRACE), obj, startLen)

Json_writeObject(s, key, obj) ==
    writeObject_brace(startField(s, key), obj, getSize(s))

(* ------------------------- specification ------------------------------- *)
Orders == {"Big", "Little"}

\* The fixed-width primitive types, their width in bits, and the values the
\* calls are made with (bit patterns, least significant digit first).
PrimBits == [Uint8 |-> 8, Uint16 |-> 16, Uint32 |-> 32, Uint64 |-> 64,
             Int8 |-> 8, Int16 |-> 16, Int32 |-> 32, Int64 |-> 64,
             Float |-> 32, Double |-> 64, Bool |-> 8]

Vals ==
    [Uint8  |-> {<<7>>},
     Uint16 |-> {<<3, 0>>, <<52, 18>>},                       \* 3, 0x1234
     Uint32 |-> {<<120, 86, 52, 18>>},                        \* 0x12345678
     Uint64 |-> {<<8, 7, 6, 5, 4, 3, 2, 1>>},                 \* 0x0102030405060708
     Int8   |-> {<<128>>},                                    \* -128
     Int16  |-> {<<254, 255>>},                               \* -2
     Int32  |-> {<<1, 0, 0, 128>>},                           \* 0x80000001
     Int64  |-> {<<128, 255, 255, 255, 255, 255, 255, 255>>}, \* -128
     Float  |-> {<<0, 0, 192, 127>>},                         \* 0x7FC00000, a NaN
     Double |-> {<<0, 0, 0, 0, 0, 0, 248, 63>>},              \* 1.5
     Bool   |-> {TRUE, FALSE}]

Strs == {Null, <<>>, <<72, 105>>, <<72, 101, 114, 111>>}      \* NULL, "", "Hi", "Hero"
Objs == {Item(<<10, 0>>, <<5>>),
         Inventory(<<244, 1, 0, 0>>, Item(<<10, 0>>, <<5>>), Item(<<20, 0>>, <<1>>))}
\* A default-constructed object of the class of obj, to read into.
Fresh(obj) ==
    IF obj.cls = "Item" THEN Item(<<0, 0>>, <<0>>)
    ELSE Inventory(<<0, 0, 0, 0>>, Item(<<0, 0>>, <<0>>), Item(<<0, 0>>, <<0>>))

\* ByteBuffer buffer(mem, capacity, order); ByteStream stream(buffer); and,
\* withJson, JsonStream json(buffer).
InitWith(caps, lim, withJson) ==
    /\ capacity \in caps
    /\ order \in Orders
    /\ LET b == [bytes |-> Zeros(capacity), length |-> 0, capacity |-> capacity,
                 order |-> order, readPos |-> 0,
                 isFirstField |-> TRUE, isClosed |-> FALSE]
           s == IF withJson THEN JsonStream(b) ELSE b
       IN  /\ bytes = s.bytes
           /\ length = s.length
           /\ readPos = s.readPos
           /\ isFirstField = s.isFirstField
           /\ isClosed = s.isClosed
    /\ last = [op |-> "init", arg |-> NoVal, ret |-> TRUE, out |-> NoVal, pre |-> S]
    /\ wlog = {}
    /\ jlog = <<>>
    /\ nops = 0
    /\ limit = lim

Init == InitWith({SmallCap, MaxCap}, MaxOps, FALSE)

\* The write-log entries a call leaves in place: those whose bytes are still
\* below the length and untouched.
Intact(e, s1, s2) ==
    /\ e.pos + e.width <= s2.length
    /\ \A i \in (e.pos + 1)..(e.pos + e.width) : s2.bytes[i] = s1.bytes[i]

\* One call of the client: the state becomes r.s and the call is recorded.
Step(op, arg, r, entry) ==
    /\ nops < limit
    /\ bytes' = r.s.bytes
    /\ length' = r.s.length
    /\ capacity' = r.s.capacity
    /\ order' = r.s.order
    /\ readPos' = r.s.readPos
    /\ isFirstField' = r.s.isFirstField
    /\ isClosed' = r.s.isClosed
    /\ last' = [op |-> op, arg |-> arg, ret |-> r.ret, out |-> r.out, pre |-> S]
    /\ wlog' = {e \in wlog : Intact(e, S, r.s)} \cup entry
    /\ jlog' = jlog
    /\ nops' = nops + 1
    /\ limit' = limit

\* The log entry of a primitive write of val that returned ret.
Entry(type, val, ret) ==
    IF ret THEN {[pos |-> length, width |-> PrimBits[type] \div 8,
                  type |-> type, val |-> val]}
    ELSE {}

\* A bool as the log records it: the byte writeBool stores for it.
BoolBits(b) == IF b THEN <<1>> ELSE <<0>>

WritePrim(type, val, r) == Step("write" \o type, val, r, Entry(type, val, r.ret))

WriteUint8 == \E v \in Vals.Uint8 : WritePrim("Uint8", v, writeUint8(S, v))
WriteUint16 == \E v \in Vals.Uint16 : WritePrim("Uint16", v, writeUint16(S, v))
WriteUint32 == \E v \in Vals.Uint32 : WritePrim("Uint32", v, writeUint32(S, v))
WriteUint64 == \E v \in Vals.Uint64 : WritePrim("Uint64", v, writeUint64(S, v))
WriteInt8 == \E v \in Vals.Int8 : WritePrim("Int8", v, writeInt8(S, v))
WriteInt16 == \E v \in Vals.Int16 : WritePrim("Int16", v, writeInt16(S, v))
WriteInt32 == \E v \in Vals.Int32 : WritePrim("Int32", v, writeInt32(S, v))
WriteInt64 == \E v \in Vals.Int64 : WritePrim("Int64", v, writeInt64(S, v))
WriteFloat == \E v \in Vals.Float : WritePrim("Float", v, writeFloat(S, v))
WriteDouble == \E v \in Vals.Double : WritePrim("Double", v, writeDouble(S, v))
WriteBool == \E v \in Vals.Bool : WritePrim("Bool", BoolBits(v), writeBool(S, v))

Logged(type, width, val, ret) ==
    IF ret THEN {[pos |-> length, width |-> width, type |-> type, val |-> val]}
    ELSE {}

WriteChars ==
    \E str \in Strs : \E len \in {0, 2} :
        /\ str # Null => len <= strlen(str)
        /\ Step("writeChars", [str |-> str, len |-> len], writeChars(S, str, len), {})
WriteString ==
    \E str \in Strs :
        Step("writeString", str, writeString(S, str),
             Logged("Text", IF str = Null THEN 2 ELSE 2 + Len(str), str,
                    writeString(S, str).ret))
\* The log entry of a composite write (a header, a string, an object) of
\* width bytes that returned ret; val is a sequence of numbers.
WriteLibraryHeader ==
    Step("writeLibraryHeader", NoVal, writeLibraryHeader(S),
         Logged("Header", 7, NoVal, writeLibraryHeader(S).ret))
\* The fields of an object in declaration order, one digit sequence.
FlatItem(obj) == obj.id \o obj.quantity

Flatten(obj) ==
    IF obj.cls = "Item" THEN FlatItem(obj)
    ELSE obj.ownerId \o FlatItem(obj.slotA) \o FlatItem(obj.slotB)

WriteObject ==
    \E obj \in Objs :
        Step("writeObject", obj, writeObject(S, obj),
             Logged(obj.cls, IF obj.cls = "Item" THEN Item_byteSize(obj)
                             ELSE Inventory_byteSize(obj),
                    Flatten(obj), writeObject(S, obj).ret))

ReadUint8 == Step("readUint8", NoVal, readUint8(S), {})
ReadUint16 == Step("readUint16", NoVal, readUint16(S), {})
ReadUint32 == Step("readUint32", NoVal, readUint32(S), {})
ReadUint64 == Step("readUint64", NoVal, readUint64(S), {})
ReadInt8 == Step("readInt8", NoVal, readInt8(S), {})
ReadInt16 == Step("readInt16", NoVal, readInt16(S), {})
ReadInt32 == Step("readInt32", NoVal, readInt32(S), {})
ReadInt64 == Step("readInt64", NoVal, readInt64(S), {})
ReadFloat == Step("readFloat", NoVal, readFloat(S), {})
ReadDouble == Step("readDouble", NoVal, readDouble(S), {})
ReadBool == Step("readBool", NoVal, readBool(S), {})
ReadChars == \E len \in {0, 2} : Step("readChars", len, readChars(S, len), {})
ReadString == \E cap \in {4, 5} : Step("readString", cap, readString(S, cap), {})
VerifyLibraryHeader == Step("verifyLibraryHeader", NoVal, verifyLibraryHeader(S), {})
ReadObject == \E obj \in Objs : Step("readObject", Fresh(obj), readObject(S, Fresh(obj)), {})
ResetReadCursor == Step("resetReadCursor", NoVal, resetReadCursor(S), {})

AddByte == \E b \in {65} : Step("addByte", b, addByte(S, b), {})
SetLength ==
    \E n \in {2, capacity, capacity + 1} : Step("setLength", n, setLength(S, n), {})
Clear == Step("clear", NoVal, clear(S), {})
Erase == Step("erase", NoVal, erase(S), {})
\* "4a", "4A:5", "4G", "01-02 03", and two headers in Big order:
\* "53444C56020100" (major 2) and "53444C56010909" (minor 9, patch 9)
HexStrs == {<<52, 97>>, <<52, 65, 58, 53>>, <<52, 71>>,
            <<48, 49, 45, 48, 50, 32, 48, 51>>,
            <<53, 51, 52, 52, 52, 67, 53, 54, 48, 50, 48, 49, 48, 48>>,
            <<53, 51, 52, 52, 52, 67, 53, 54, 48, 49, 48, 57, 48, 57>>}
FromHex == \E h \in HexStrs : Step("fromHex", h, fromHex(S, h), {})

Next ==
    \/ WriteUint8 \/ WriteUint16 \/ WriteUint32 \/ WriteUint64
    \/ WriteInt8 \/ WriteInt16 \/ WriteInt32 \/ WriteInt64
    \/ WriteFloat \/ WriteDouble \/ WriteBool
    \/ WriteChars \/ WriteString \/ WriteLibraryHeader \/ WriteObject
    \/ ReadUint8 \/ ReadUint16 \/ ReadUint32 \/ ReadUint64
    \/ ReadInt8 \/ ReadInt16 \/ ReadInt32 \/ ReadInt64
    \/ ReadFloat \/ ReadDouble \/ ReadBool
    \/ ReadChars \/ ReadString \/ VerifyLibraryHeader \/ ReadObject
    \/ ResetReadCursor
    \/ AddByte \/ SetLength \/ Clear \/ Erase \/ FromHex

Spec == Init /\ [][Next]_vars

(* ----------------------- the JSON builder's runs ----------------------- *)
JKeys == {<<97>>, <<98>>}                                     \* "a", "b"
JKey == <<97>>
JFloats == {<<0, 0, 192, 127>>, <<0, 0, 192, 63>>}            \* NaN, 1.5f
JDoubles == {<<0, 0, 0, 0, 0, 0, 240, 255>>, <<0, 0, 0, 0, 0, 0, 248, 63>>}  \* -inf, 1.5
JStrs == {Null, <<120>>, <<34, 10>>}                          \* NULL, "x", "\"\n"
JObjs == {Stats(<<15, 0, 0, 0>>, <<7, 0, 0, 0>>),
          NPC(<<77>>, Stats(<<15, 0, 0, 0>>, <<7, 0, 0, 0>>))}

\* One call on the JsonStream: a call of the client that is also logged.
JStep(op, key, val, r) ==
    /\ nops < limit
    /\ bytes' = r.s.bytes
    /\ length' = r.s.length
    /\ capacity' = r.s.capacity
    /\ order' = r.s.order
    /\ readPos' = r.s.readPos
    /\ isFirstField' = r.s.isFirstField
    /\ isClosed' = r.s.isClosed
    /\ last' = [op |-> op, arg |-> [key |-> key, val |-> val], ret |-> r.ret,
                out |-> r.out, pre |-> S]
    /\ wlog' = {e \in wlog : Intact(e, S, r.s)}
    /\ jlog' = Append(jlog, [op |-> op, key |-> key, val |-> val, ret |-> r.ret])
    /\ nops' = nops + 1
    /\ limit' = limit

JsonWriteUint8 ==
    \E k \in JKeys \cup {Null} : \E v \in Vals.Uint8 :
        JStep("Json_writeUint8", k, v, Json_writeUint8(S, k, v))
JsonWriteUint16 ==
    \E v \in Vals.Uint16 : JStep("Json_writeUint16", JKey, v, Json_writeUint16(S, JKey, v))
JsonWriteUint32 ==
    \E v \in Vals.Uint32 : JStep("Json_writeUint32", JKey, v, Json_writeUint32(S, JKey, v))
JsonWriteUint64 ==
    \E v \in Vals.Uint64 : JStep("Json_writeUint64", JKey, v, Json_writeUint64(S, JKey, v))
JsonWriteInt8 ==
    \E v \in Vals.Int8 : JStep("Json_writeInt8", JKey, v, Json_writeInt8(S, JKey, v))
JsonWriteInt16 ==
    \E v \in Vals.Int16 : JStep("Json_writeInt16", JKey, v, Json_writeInt16(S, JKey, v))
JsonWriteInt32 ==
    \E v \in Vals.Int32 : JStep("Json_writeInt32", JKey, v, Json_writeInt32(S, JKey, v))
JsonWriteInt64 ==
    \E v \in Vals.Int64 : JStep("Json_writeInt64", JKey, v, Json_writeInt64(S, JKey, v))
JsonWriteFloat ==
    \E v \in JFloats : JStep("Json_writeFloat", JKey, v, Json_writeFloat(S, JKey, v))
JsonWriteDouble ==
    \E v \in JDoubles : JStep("Json_writeDouble", JKey, v, Json_writeDouble(S, JKey, v))
JsonWriteBool ==
    \E k \in JKeys : \E v \in BOOLEAN :
        JStep("Json_writeBool", k, BoolBits(v), Json_writeBool(S, k, v))
JsonWriteString ==
    \E v \in JStrs : JStep("Json_writeString", JKey, v, Json_writeString(S, JKey, v))
JsonWriteObject ==
    \E obj \in JObjs : JStep("Json_writeObject", JKey, obj, Json_writeObject(S, JKey, obj))
JsonClose == JStep("close", NoVal, NoVal, close(S))

JsonNext ==
    \/ JsonWriteUint8 \/ JsonWriteUint16 \/ JsonWriteUint32 \/ JsonWriteUint64
    \/ JsonWriteInt8 \/ JsonWriteInt16 \/ JsonWriteInt32 \/ JsonWriteInt64
    \/ JsonWriteFloat \/ JsonWriteDouble \/ JsonWriteBool
    \/ JsonWriteString \/ JsonWriteObject \/ JsonClose

JsonInit == InitWith({JsonSmallCap, JsonMaxCap}, MaxJsonOps, TRUE)

JsonSpec == JsonInit /\ [][JsonNext]_vars

\* A ByteStream and a JsonStream constructed over one buffer.
AllInit == InitWith({SmallCap, MaxCap}, MaxAllOps, TRUE)

AllNext == Next \/ JsonNext

AllSpec == AllInit /\ [][AllNext]_vars


(* ------------------------------ properties ----------------------------- *)
PrimTypes == DOMAIN PrimBits

\* The bytes a ByteStream write asks for: the width of a primitive, the
\* length of a character run, the prefix and the characters of a string
\* (the prefix alone for the null string), the 7 bytes of the header.
IsSizedWrite ==
    \/ \E T \in PrimTypes : last.op = "write" \o T
    \/ last.op = "writeChars" /\ last.arg.str # Null
    \/ last.op \in {"writeString", "writeLibraryHeader"}

Needed ==
    IF last.op = "writeChars" THEN last.arg.len
    ELSE IF last.op = "writeString"
         THEN (IF last.arg = Null THEN 2 ELSE 2 + Len(last.arg))
    ELSE IF last.op = "writeLibraryHeader" THEN 7
    ELSE PrimBits[CHOOSE T \in PrimTypes : last.op = "write" \o T] \div 8

\* The bytes a fixed-width read or readChars asks for.
IsSizedRead ==
    \/ \E T \in PrimTypes : last.op = "read" \o T
    \/ last.op = "readChars"

Wanted ==
    IF last.op = "readChars" THEN last.arg
    ELSE PrimBits[CHOOSE T \in PrimTypes : last.op = "read" \o T] \div 8

\* The value a read gave back, as the write log records values.
ReadValue == IF last.op = "readBool" THEN BoolBits(last.out) ELSE last.out

\* C1: a value written by write<T> and still in place is read back bit for
\* bit by read<T> from the position it was written at, in either endian
\* order; the read returns true and advances readPos by the width of T.
C1_RoundTrip ==
    \A e \in wlog :
        (last.op = "read" \o e.type /\ last.pre.readPos = e.pos)
        => /\ last.ret
           /\ ReadValue = e.val
           /\ readPos = last.pre.readPos + e.width

\* A multi-byte value read back in big-endian order.
C1_Witness ==
    \E e \in wlog :
        /\ last.op = "read" \o e.type /\ last.pre.readPos = e.pos /\ last.ret
        /\ e.width >= 2 /\ order = "Big"

\* C2: a ByteStream write that needs n bytes fails with the length and the
\* bytes below the old length unchanged when capacity - length < n, and
\* otherwise returns true with the length grown by exactly n.
C2_WriteAllOrNothing ==
    IsSizedWrite =>
        IF last.pre.capacity - last.pre.length < Needed
        THEN /\ ~last.ret
             /\ length = last.pre.length
             /\ \A i \in 1..last.pre.length : bytes[i] = last.pre.bytes[i]
        ELSE /\ last.ret
             /\ length = last.pre.length + Needed

\* A write refused although some, but not enough, room was left.
C2_Witness ==
    /\ IsSizedWrite /\ ~last.ret
    /\ last.pre.length > 0
    /\ last.pre.capacity - last.pre.length > 0
    /\ last.pre.capacity - last.pre.length < Needed

\* C3: a fixed-width read or readChars asking for more bytes than lie
\* between readPos and the length returns false and leaves readPos, the
\* length and the bytes unchanged.
C3_ReadUnderflow ==
    (IsSizedRead /\ last.pre.readPos + Wanted > last.pre.length)
    => /\ ~last.ret
       /\ readPos = last.pre.readPos
       /\ length = last.pre.length
       /\ bytes = last.pre.bytes

\* A read refused although some, but not enough, bytes were left to read.
C3_Witness ==
    /\ IsSizedRead /\ ~last.ret
    /\ last.pre.readPos < last.pre.length
    /\ last.pre.readPos + Wanted > last.pre.length

\* C4: length <= capacity in every state reached by calls on the buffer,
\* the ByteStream and the JsonStream; addByte returns false exactly when the
\* buffer is full and otherwise stores the byte at index length and adds
\* one to the length.
C4_LengthWithinCapacity ==
    /\ length <= capacity
    /\ last.op = "addByte" =>
          /\ last.ret <=> last.pre.length # last.pre.capacity
          /\ last.ret =>
                /\ length = last.pre.length + 1
                /\ bytes = [last.pre.bytes EXCEPT ![last.pre.length + 1] = last.arg]
          /\ ~last.ret => (length = last.pre.length /\ bytes = last.pre.bytes)

\* addByte refused on a full buffer.
C4_Witness == last.op = "addByte" /\ ~last.ret /\ length = capacity


(* ----------------------- properties of the JSON builder ---------------- *)
ScalarOps ==
    {"Json_writeUint8", "Json_writeUint16", "Json_writeUint32", "Json_writeUint64",
     "Json_writeInt8", "Json_writeInt16", "Json_writeInt32", "Json_writeInt64",
     "Json_writeFloat", "Json_writeDouble", "Json_writeBool", "Json_writeString"}

JsonWriteOps == ScalarOps \cup {"Json_writeObject"}

\* The JSON text of each value the scalar writes are called with, written
\* out by hand.
ExpectedValue(op, val) ==
    CASE op = "Json_writeUint8" /\ val = <<7>> -> <<55>>
      [] op = "Json_writeUint16" /\ val = <<3, 0>> -> <<51>>
      [] op = "Json_writeUint16" /\ val = <<52, 18>> -> <<52, 54, 54, 48>>
      [] op = "Json_writeUint32" /\ val = <<120, 86, 52, 18>> -> <<51, 48, 53, 52, 49, 57, 56, 57, 54>>
      [] op = "Json_writeUint64" /\ val = <<8, 7, 6, 5, 4, 3, 2, 1>> ->
             <<55, 50, 54, 50, 51, 56, 53, 57, 55, 57, 48, 51, 56, 50, 56, 53, 54>>
      [] op = "Json_writeInt8" /\ val = <<128>> -> <<45, 49, 50, 56>>
      [] op = "Json_writeInt16" /\ val = <<254, 255>> -> <<45, 50>>
      [] op = "Json_writeInt32" /\ val = <<1, 0, 0, 128>> -> <<45, 50, 49, 52, 55, 52, 56, 51, 54, 52, 55>>
      [] op = "Json_writeInt64" -> <<45, 49, 50, 56>>
      [] op = "Json_writeFloat" /\ val = <<0, 0, 192, 127>> -> <<110, 117, 108, 108>>
      [] op = "Json_writeFloat" /\ val = <<0, 0, 192, 63>> -> <<49, 46, 53>>
      [] op = "Json_writeDouble" /\ val = <<0, 0, 0, 0, 0, 0, 240, 255>> -> <<110, 117, 108, 108>>
      [] op = "Json_writeDouble" /\ val = <<0, 0, 0, 0, 0, 0, 248, 63>> -> <<49, 46, 53>>
      [] op = "Json_writeBool" /\ val = <<1>> -> <<116, 114, 117, 101>>
      [] op = "Json_writeBool" /\ val = <<0>> -> <<102, 97, 108, 115, 101>>
      [] op = "Json_writeString" /\ val = Null -> <<110, 117, 108, 108>>
      [] op = "Json_writeString" /\ val = <<120>> -> <<34, 120, 34>>
      [] op = "Json_writeString" /\ val = <<34, 10>> -> <<34, 92, 34, 92, 110, 34>>

\* The fields "key":value of the calls, a comma before each but the first.
RECURSIVE ExpectedFields(_, _)
ExpectedFields(calls, first) ==
    IF calls = <<>> THEN <<>>
    ELSE (IF first THEN <<>> ELSE <<COMMA>>)
         \o <<QUOTE>> \o Head(calls).key \o <<QUOTE, COLON>>
         \o ExpectedValue(Head(calls).op, Head(calls).val)
         \o ExpectedFields(Tail(calls), FALSE)

\* The run so far is n successful scalar writes and then a successful close.
ScalarsThenClose ==
    /\ Len(jlog) >= 1
    /\ jlog[Len(jlog)].op = "close" /\ jlog[Len(jlog)].ret
    /\ \A i \in 1..(Len(jlog) - 1) : jlog[i].op \in ScalarOps /\ jlog[i].ret

\* C5: on a fresh JsonStream, n >= 0 successful scalar field writes and a
\* successful close() leave exactly '{', the fields "key":value in call
\* order with one comma between neighbours, and '}'.
C5_JsonDocument ==
    ScalarsThenClose =>
        SubSeq(bytes, 1, length)
            = <<LBRACE>> \o ExpectedFields(SubSeq(jlog, 1, Len(jlog) - 1), TRUE)
                         \o <<RBRACE>>

\* Two fields written and the document closed.
C5_Witness == ScalarsThenClose /\ Len(jlog) = 3

\* C6: once the stream is closed it stays closed, and every field write and
\* every writeObject returns false and leaves the length, the bytes,
\* isFirstField and isClosed unchanged.
C6_ClosedIsTerminal ==
    /\ last.pre.isClosed => isClosed
    /\ (last.op \in JsonWriteOps /\ last.pre.isClosed) =>
          /\ ~last.ret
          /\ length = last.pre.length
          /\ bytes = last.pre.bytes
          /\ isFirstField = last.pre.isFirstField
          /\ isClosed = last.pre.isClosed

\* A field written, the stream closed, and a field write then refused.
C6_Witness ==
    /\ last.op \in JsonWriteOps /\ last.pre.isClosed /\ ~last.ret
    /\ Len(jlog) = 3 /\ jlog[1].ret /\ jlog[2].op = "close"

\* C7: a scalar field write that returns false for lack of space leaves
\* the length as it was before the call.
C7_FailedFieldKeepsLength ==
    (/\ last.op \in ScalarOps /\ ~last.ret
     /\ ~last.pre.isClosed /\ last.arg.key # Null)
    => length = last.pre.length

\* C8: a writeObject that returns false leaves the length, isFirstField
\* and isClosed as they were before the call.
C8_FailedObjectRestores ==
    (last.op = "Json_writeObject" /\ ~last.ret)
    => /\ length = last.pre.length
       /\ isFirstField = last.pre.isFirstField
       /\ isClosed = last.pre.isClosed

(* ----------------------- properties of composite calls ----------------- *)
\* C9: a ByteStream writeObject that returns false leaves the length as it
\* was before the call.
C9_FailedObjectKeepsLength ==
    (last.op = "writeObject" /\ ~last.ret) => length = last.pre.length

\* The length prefix readString finds in the state before the call.
Prefix == readUint16(last.pre)

\* C10: readString on a readable prefix L with fewer than L bytes after it
\* (and a destination large enough for L characters) returns false and
\* leaves readPos as it was before the call.
C10_TruncatedStringKeepsCursor ==
    (/\ last.op = "readString"
     /\ Prefix.ret
     /\ last.pre.readPos + 2 + U16Value(Prefix.out) > last.pre.length
     /\ last.arg >= U16Value(Prefix.out) + 1)
    => (~last.ret /\ readPos = last.pre.readPos)

\* C11: readString on a prefix L with destCapacity < L + 1 returns false,
\* stores nothing in the destination, leaves readPos two bytes past its
\* value before the call and leaves the buffer unchanged.
C11_UndersizedDestination ==
    (/\ last.op = "readString"
     /\ Prefix.ret
     /\ last.arg < U16Value(Prefix.out) + 1)
    => /\ ~last.ret
       /\ last.out = NoVal
       /\ readPos = last.pre.readPos + 2
       /\ length = last.pre.length
       /\ bytes = last.pre.bytes

\* A destination one byte too small for a string that is wholly present.
C11_Witness ==
    /\ last.op = "readString" /\ Prefix.ret /\ ~last.ret
    /\ last.arg = U16Value(Prefix.out)
    /\ last.pre.readPos + 2 + U16Value(Prefix.out) <= last.pre.length

(* ------------------------ properties of the header --------------------- *)
\* 0x53444C56 on the wire, written out by hand for each order.
MagicWire(ord) == IF ord = "Big" THEN <<83, 68, 76, 86>> ELSE <<86, 76, 68, 83>>

\* Seven bytes are readable at s.readPos, the first four are the magic in
\* the buffer's order and the fifth is the library's major version.
HeaderAt(s) ==
    /\ s.readPos + 7 <= s.length
    /\ SubSeq(s.bytes, s.readPos + 1, s.readPos + 4) = MagicWire(s.order)
    /\ s.bytes[s.readPos + 5] = SERDELITE_VERSION_MAJOR

\* C12: a verifyLibraryHeader that returns false leaves readPos, the
\* length and the bytes as they were before the call.
C12_RejectedHeaderRestoresCursor ==
    (last.op = "verifyLibraryHeader" /\ ~last.ret)
    => /\ readPos = last.pre.readPos
       /\ length = last.pre.length
       /\ bytes = last.pre.bytes

\* A header rejected for its major version alone, after all seven bytes
\* were read.
C12_Witness ==
    /\ last.op = "verifyLibraryHeader" /\ ~last.ret
    /\ last.pre.readPos + 7 <= last.pre.length
    /\ SubSeq(last.pre.bytes, last.pre.readPos + 1, last.pre.readPos + 4)
          = MagicWire(last.pre.order)

\* C13: verifyLibraryHeader returns true exactly when seven bytes are
\* readable, the first four decode to the magic and the fifth is the major
\* version, whatever the minor and patch bytes; it then advances readPos
\* by 7.
C13_HeaderAccepted ==
    last.op = "verifyLibraryHeader"
    => /\ last.ret <=> HeaderAt(last.pre)
       /\ last.ret => readPos = last.pre.readPos + 7

\* A header of another minor and patch version accepted.
C13_Witness ==
    /\ last.op = "verifyLibraryHeader" /\ last.ret
    /\ last.pre.bytes[last.pre.readPos + 6] # SERDELITE_VERSION_MINOR
    /\ last.pre.bytes[last.pre.readPos + 7] # SERDELITE_VERSION_PATCH

\* C14: writeLibraryHeader appends the magic in the buffer's order and the
\* major, minor and patch bytes and returns true, or returns false and
\* appends nothing when fewer than 7 bytes are free; a header it wrote and
\* that is still in place is accepted by verifyLibraryHeader from the
\* position it was written at.
C14_HeaderWritten ==
    /\ last.op = "writeLibraryHeader" =>
          IF last.pre.capacity - last.pre.length < 7
          THEN ~last.ret /\ length = last.pre.length /\ bytes = last.pre.bytes
          ELSE /\ last.ret
               /\ length = last.pre.length + 7
               /\ SubSeq(bytes, 1, last.pre.length)
                     = SubSeq(last.pre.bytes, 1, last.pre.length)
               /\ SubSeq(bytes, last.pre.length + 1, length)
                     = MagicWire(order)
                       \o <<SERDELITE_VERSION_MAJOR, SERDELITE_VERSION_MINOR,
                            SERDELITE_VERSION_PATCH>>
    /\ \A e \in wlog :
          (e.type = "Header" /\ last.op = "verifyLibraryHeader"
           /\ last.pre.readPos = e.pos)
          => (last.ret /\ readPos = e.pos + 7)

\* A header written in Little order and then verified where it starts.
C14_Witness ==
    \E e \in wlog :
        /\ e.type = "Header" /\ order = "Little"
        /\ last.op = "verifyLibraryHeader" /\ last.pre.readPos = e.pos /\ last.ret

(* ------------------- properties of strings and objects ----------------- *)
\* The bytes the call appended.
Appended == SubSeq(bytes, last.pre.length + 1, length)

\* The call left the bytes below the old length alone.
KeptBelow ==
    SubSeq(bytes, 1, last.pre.length) = SubSeq(last.pre.bytes, 1, last.pre.length)

\* A 16-bit number on the wire, written out for each order.
PrefixWire(n, ord) ==
    IF ord = "Big" THEN <<n \div 256, n % 256>> ELSE <<n % 256, n \div 256>>

\* The characters of a string, none for the null pointer.
StrChars(str) == IF str = Null THEN <<>> ELSE str

\* C15: writeString of a string of len <= 65535 characters with 2 + len
\* bytes free appends the 16-bit length in the buffer's order and the len
\* characters, no terminator; with too little space (or len > 65535) it
\* returns false and the length is unchanged.
C15_StringFormat ==
    (last.op = "writeString" /\ last.arg # Null) =>
        IF /\ Len(last.arg) <= UINT16_MAX_VALUE
           /\ last.pre.capacity - last.pre.length >= 2 + Len(last.arg)
        THEN /\ last.ret
             /\ length = last.pre.length + 2 + Len(last.arg)
             /\ KeptBelow
             /\ Appended = PrefixWire(Len(last.arg), order) \o last.arg
        ELSE ~last.ret /\ length = last.pre.length

\* "Hero" written in Big order: 00 04 48 65 72 6F.
C15_Witness ==
    /\ last.op = "writeString" /\ last.ret /\ order = "Big"
    /\ Appended = <<0, 4, 72, 101, 114, 111>>

\* C16: a string written by writeString (the null pointer as length 0)
\* and still in place is read back by readString, from the position it was
\* written at and with capacity >= len + 1: the call returns true, stores
\* the len characters and a terminator after them, and advances readPos by
\* 2 + len.
C16_StringRoundTrip ==
    \A e \in wlog :
        (/\ e.type = "Text" /\ last.op = "readString"
         /\ last.pre.readPos = e.pos
         /\ last.arg >= Len(StrChars(e.val)) + 1)
        => /\ last.ret
           /\ last.out = StrChars(e.val) \o <<0>>
           /\ readPos = e.pos + 2 + Len(StrChars(e.val))

\* "Hero" read back in Little order.
C16_Witness ==
    \E e \in wlog :
        /\ e.type = "Text" /\ e.val = <<72, 101, 114, 111>> /\ order = "Little"
        /\ last.op = "readString" /\ last.pre.readPos = e.pos /\ last.ret

\* A digit sequence on the wire: most significant digit first in Big order.
RECURSIVE Reversed(_)
Reversed(seq) == IF seq = <<>> THEN <<>> ELSE Append(Reversed(Tail(seq)), Head(seq))

Wire(v, ord) == IF ord = "Big" THEN Reversed(v) ELSE v

\* The fields of an object on the wire, one after the other and nothing else.
ItemWire(obj, ord) == Wire(obj.id, ord) \o obj.quantity

ObjectWire(obj, ord) ==
    IF obj.cls = "Item" THEN ItemWire(obj, ord)
    ELSE Wire(obj.ownerId, ord) \o ItemWire(obj.slotA, ord) \o ItemWire(obj.slotB, ord)

\* C17: a successful writeObject appends the plain concatenation of the
\* fields in write order, and an object still in place is read back by
\* readObject into a fresh instance, from the position it was written at,
\* field for field, readPos ending at the end of the object's bytes.
C17_NestedRoundTrip ==
    /\ (last.op = "writeObject" /\ last.ret) =>
          (KeptBelow /\ Appended = ObjectWire(last.arg, order))
    /\ \A e \in wlog :
          (/\ e.type \in {"Item", "Inventory"} /\ last.op = "readObject"
           /\ last.arg.cls = e.type /\ last.pre.readPos = e.pos)
          => /\ last.ret
             /\ Flatten(last.out) = e.val
             /\ readPos = e.pos + e.width

\* An Inventory (a scalar and two sub-objects) read back.
C17_Witness ==
    \E e \in wlog :
        /\ e.type = "Inventory" /\ last.op = "readObject"
        /\ last.arg.cls = "Inventory" /\ last.pre.readPos = e.pos /\ last.ret

(* ----------------------------- byte order ------------------------------ *)
\* The writes of 16, 32 and 64 bits.
WideTypes == {T \in PrimTypes : PrimBits[T] \in {16, 32, 64}}

\* C18: a successful write of a w-bit value, w in {16, 32, 64}, appends
\* w/8 bytes, most significant byte first in Big order and least
\* significant byte first in Little order, so that the Little sequence is
\* the reversal of the Big one.
C18_ByteOrder ==
    \A T \in WideTypes :
        (last.op = "write" \o T /\ last.ret) =>
            /\ length = last.pre.length + PrimBits[T] \div 8
            /\ KeptBelow
            /\ Appended = (IF order = "Big" THEN Reversed(last.arg) ELSE last.arg)
            /\ WireBytes(last.arg, PrimBits[T], "Little")
                   = Reversed(WireBytes(last.arg, PrimBits[T], "Big"))

\* 0x12345678 appended as 12 34 56 78 in Big order.
C18_Witness ==
    /\ last.op = "writeUint32" /\ last.ret /\ order = "Big"
    /\ last.arg = <<120, 86, 52, 18>>
    /\ Appended = <<18, 52, 86, 120>>

(* ---------------------------- signed values ---------------------------- *)
\* The signed calls made with patterns on both sides of the sign bit, on a
\* ByteStream and a JsonStream over one buffer.
SignedTypes == {"Int8", "Int16", "Int32", "Int64"}

SignVals ==
    [Int8 |-> {<<0>>, <<127>>, <<128>>, <<255>>},
     Int16 |-> {<<255, 127>>, <<0, 128>>, <<254, 255>>},
     Int32 |-> {<<255, 255, 255, 127>>, <<1, 0, 0, 128>>, <<255, 255, 255, 255>>},
     Int64 |-> {<<255, 255, 255, 255, 255, 255, 255, 127>>,
                <<0, 0, 0, 0, 0, 0, 0, 128>>}]

SignWriteInt8 == \E v \in SignVals.Int8 : WritePrim("Int8", v, writeInt8(S, v))
SignWriteInt16 == \E v \in SignVals.Int16 : WritePrim("Int16", v, writeInt16(S, v))
SignWriteInt32 == \E v \in SignVals.Int32 : WritePrim("Int32", v, writeInt32(S, v))
SignWriteInt64 == \E v \in SignVals.Int64 : WritePrim("Int64", v, writeInt64(S, v))

SignJsonInt8 ==
    \E v \in SignVals.Int8 : JStep("Json_writeInt8", JKey, v, Json_writeInt8(S, JKey, v))
SignJsonInt16 ==
    \E v \in SignVals.Int16 : JStep("Json_writeInt16", JKey, v, Json_writeInt16(S, JKey, v))
SignJsonInt32 ==
    \E v \in SignVals.Int32 : JStep("Json_writeInt32", JKey, v, Json_writeInt32(S, JKey, v))
SignJsonInt64 ==
    \E v \in SignVals.Int64 : JStep("Json_writeInt64", JKey, v, Json_writeInt64(S, JKey, v))

SignInit == InitWith({JsonMaxCap}, MaxSignOps, TRUE)

SignNext ==
    \/ SignWriteInt8 \/ SignWriteInt16 \/ SignWriteInt32 \/ SignWriteInt64
    \/ ReadInt8 \/ ReadInt16 \/ ReadInt32 \/ ReadInt64
    \/ SignJsonInt8 \/ SignJsonInt16 \/ SignJsonInt32 \/ SignJsonInt64

SignSpec == SignInit /\ [][SignNext]_vars

\* 256^k for the digits of a 32-bit value.
Pow256(k) == CASE k = 0 -> 1 [] k = 1 -> 256 [] k = 2 -> 65536 [] k = 3 -> 16777216

RECURSIVE LowValue(_, _)
LowValue(p, n) == IF n = 0 THEN 0 ELSE LowValue(p, n - 1) + p[n] * Pow256(n - 1)

\* The number a w-bit pattern p stands for, w = 8 * Len(p) <= 32: p below
\* 2^(w-1), that is with a top digit below 128, and p - 2^w otherwise, the
\* subtraction carried out on the top digit.
SignedValue(p) ==
    LowValue(p, Len(p) - 1)
        + (IF p[Len(p)] < 128 THEN p[Len(p)] ELSE p[Len(p)] - 256) * Pow256(Len(p) - 1)

\* The decimal text of a number.
RECURSIVE DecNat(_)
DecNat(n) == IF n < 10 THEN <<48 + n>> ELSE Append(DecNat(n \div 10), 48 + (n % 10))

DecText(n) == IF n < 0 THEN <<45>> \o DecNat(0 - n) ELSE DecNat(n)

\* The 64-bit two's complement pattern of the number a w-bit pattern stands for.
SignExtended(p) ==
    p \o AsTuple([k \in 1..(8 - Len(p)) |-> IF p[Len(p)] < 128 THEN 0 ELSE 255],
                 8 - Len(p))

\* The w-bit pattern a read found in the buffer, least significant digit first.
PatternRead(w) ==
    Wire(SubSeq(last.pre.bytes, last.pre.readPos + 1, last.pre.readPos + w \div 8),
         order)

\* C19: for w in {8, 16, 32} a w-bit pattern p stands for p when
\* p < 2^(w-1) and for p - 2^w otherwise: interpretAsSigned extends the sign
\* into 64 bits, the signed read gives back the pattern it found and the
\* JSON signed writer prints that number; for w = 64 the pattern is taken
\* unchanged.
C19_SignExtension ==
    \A T \in SignedTypes :
        /\ (last.op = "read" \o T /\ last.ret) =>
              /\ last.out = PatternRead(PrimBits[T])
              /\ interpretAsSigned(ToU64(last.out), PrimBits[T]).dest
                     = SignExtended(last.out)
        /\ (last.op = "write" \o T) =>
              interpretAsSigned(ToU64(last.arg), PrimBits[T]).dest
                  = SignExtended(last.arg)
        /\ (last.op = "Json_write" \o T /\ last.ret) =>
              /\ interpretAsSigned(SignedToU64(last.arg.val), PrimBits[T]).dest
                     = SignExtended(last.arg.val)
              /\ PrimBits[T] <= 32 =>
                    LET txt == DecText(SignedValue(last.arg.val))
                    IN  /\ SubSeq(bytes, length - Len(txt) + 1, length) = txt
                        /\ bytes[length - Len(txt)] = COLON

\* The pattern 0x80000001 printed as -2147483647 after the pattern 0x7F
\* printed as 127.
C19_Witness ==
    /\ last.op = "Json_writeInt32" /\ last.ret
    /\ last.arg.val = <<1, 0, 0, 128>>
    /\ SubSeq(bytes, length - 10, length)
           = <<45, 50, 49, 52, 55, 52, 56, 51, 54, 52, 55>>
    /\ \E i \in 1..Len(jlog) : jlog[i].op = "Json_writeInt8" /\ jlog[i].val = <<127>>

(* ------------------------------- close() ------------------------------- *)
\* C20: close() on an open stream with a byte free appends one '}' and
\* sets isClosed; on a closed stream it returns true and leaves length,
\* bytes and flags as they were; on an open stream whose region is full it
\* returns false and leaves the stream open and the length unchanged.
C20_CloseIdempotent ==
    last.op = "close" =>
        IF last.pre.isClosed
        THEN /\ last.ret
             /\ length = last.pre.length
             /\ bytes = last.pre.bytes
             /\ isFirstField = last.pre.isFirstField
             /\ isClosed
        ELSE IF last.pre.length < last.pre.capacity
        THEN /\ last.ret
             /\ length = last.pre.length + 1
             /\ bytes[length] = RBRACE
             /\ KeptBelow
             /\ isFirstField = last.pre.isFirstField
             /\ isClosed
        ELSE /\ ~last.ret
             /\ ~isClosed
             /\ length = last.pre.length

\* close() called a second time on the stream it closed.
C20_Witness ==
    /\ last.op = "close" /\ last.pre.isClosed /\ last.ret
    /\ Len(jlog) >= 2 /\ jlog[Len(jlog) - 1].op = "close" /\ jlog[Len(jlog) - 1].ret

(* --------------------------- nested JSON objects ----------------------- *)
\* The fields of the objects the calls are made with, written out by hand:
\* "level":15,"xp":7 and "name":"M","stats":{"level":15,"xp":7}.
StatsText ==
    <<34, 108, 101, 118, 101, 108, 34, 58, 49, 53, 44, 34, 120, 112, 34, 58, 55>>

NPCText ==
    <<34, 110, 97, 109, 101, 34, 58, 34, 77, 34, 44,
      34, 115, 116, 97, 116, 115, 34, 58, 123>> \o StatsText \o <<125>>

ObjectText(obj) == IF obj.cls = "Stats" THEN StatsText ELSE NPCText

\* The call before the last one was a successful writeObject.
AfterObject ==
    /\ Len(jlog) >= 2
    /\ jlog[Len(jlog) - 1].op = "Json_writeObject" /\ jlog[Len(jlog) - 1].ret

EscStrs ==
    {<<c>> : c \in 1..255}
        \cup {Null, <<97, 32, 98>>, <<34, 92, 10>>, <<120, 92>>, <<97, 200, 98>>,
              <<9, 13, 8, 12, 1, 31>>}

EscWriteString ==
    \E v \in EscStrs : JStep("Json_writeString", JKey, v, Json_writeString(S, JKey, v))

EscInit == InitWith({JsonMaxCap}, MaxEscOps, TRUE)

EscNext == EscWriteString \/ JsonClose

EscSpec == EscInit /\ [][EscNext]_vars

\* "0123456789ABCDEF"
UpperHex == <<48, 49, 50, 51, 52, 53, 54, 55, 56, 57, 65, 66, 67, 68, 69, 70>>

\* The image of one byte of a string value.
CharImage(c) ==
    IF c = 34 THEN <<92, 34>>
    ELSE IF c = 92 THEN <<92, 92>>
    ELSE IF c = 10 THEN <<92, 110>>
    ELSE IF c = 9 THEN <<92, 116>>
    ELSE IF c = 13 THEN <<92, 114>>
    ELSE IF c = 8 THEN <<92, 98>>
    ELSE IF c = 12 THEN <<92, 102>>
    ELSE IF c < 32 THEN <<92, 117, 48, 48, UpperHex[(c \div 16) + 1], UpperHex[(c % 16) + 1]>>
    ELSE <<c>>

RECURSIVE StringImage(_)
StringImage(str) ==
    IF str = <<>> THEN <<>> ELSE CharImage(Head(str)) \o StringImage(Tail(str))

\* C22: a successful writeString(key, val) emits, between the quotes of the
\* value, the image of val byte by byte: the seven two-character escapes,
\* \u00XX in uppercase hex for every other byte below 0x20, every other
\* byte unchanged; a null val emits null without quotes.
C22_Escaping ==
    (last.op = "Json_writeString" /\ last.ret) =>
        /\ KeptBelow
        /\ Appended = (IF last.pre.isFirstField THEN <<>> ELSE <<COMMA>>)
                      \o <<QUOTE>> \o last.arg.key \o <<QUOTE, COLON>>
                      \o (IF last.arg.val = Null THEN <<110, 117, 108, 108>>
                          ELSE <<34>> \o StringImage(last.arg.val) \o <<34>>)

\* The control character 0x1F written as \u001F.
C22_Witness ==
    /\ last.op = "Json_writeString" /\ last.ret /\ last.arg.val = <<31>>
    /\ SubSeq(bytes, length - 7, length) = <<34, 92, 117, 48, 48, 49, 70, 34>>

(* ------------------------------ JsonBuffer ----------------------------- *)
\* A character of the printer's output: one of the text (putchar(c)) or one
\* the printer put in (a newline, an indent space, the space after a colon).
Put(c) == [c |-> c, ins |-> FALSE]
Ins(c) == [c |-> c, ins |-> TRUE]

\* printIndent(level, tabWidth): level * tabWidth spaces, none for level < 0.
printIndent(level, tabWidth) ==
    IF level < 0 THEN <<>>
    ELSE AsTuple([k \in 1..(level * tabWidth) |-> Ins(32)], level * tabWidth)

\* The for loop of printPretty from index i on.
RECURSIVE PrettyLoop(_, _, _, _, _, _)
PrettyLoop(data, len, i, indentLevel, inQuotes, tabWidth) ==
    IF i >= len THEN <<>>
    ELSE IF data[i + 1] = QUOTE /\ (i = 0 \/ data[i] # BACKSLASH)
    THEN <<Put(data[i + 1])>>
         \o PrettyLoop(data, len, i + 1, indentLevel, ~inQuotes, tabWidth)
    ELSE IF inQuotes
    THEN <<Put(data[i + 1])>>
         \o PrettyLoop(data, len, i + 1, indentLevel, inQuotes, tabWidth)
    ELSE IF data[i + 1] \in {123, 91}
    THEN <<Put(data[i + 1]), Ins(10)>> \o printIndent(indentLevel + 1, tabWidth)
         \o PrettyLoop(data, len, i + 1, indentLevel + 1, inQuotes, tabWidth)
    ELSE IF data[i + 1] \in {125, 93}
    THEN <<Ins(10)>> \o printIndent(indentLevel - 1, tabWidth) \o <<Put(data[i + 1])>>
         \o PrettyLoop(data, len, i + 1, indentLevel - 1, inQuotes, tabWidth)
    ELSE IF data[i + 1] = COMMA
    THEN <<Put(data[i + 1]), Ins(10)>> \o printIndent(indentLevel, tabWidth)
         \o PrettyLoop(data, len, i + 1, indentLevel, inQuotes, tabWidth)
    ELSE IF data[i + 1] = COLON
    THEN <<Put(data[i + 1]), Ins(32)>>
         \o PrettyLoop(data, len, i + 1, indentLevel, inQuotes, tabWidth)
    ELSE IF data[i + 1] \in {32, 9, 10, 13}
    THEN PrettyLoop(data, len, i + 1, indentLevel, inQuotes, tabWidth)
    ELSE <<Put(data[i + 1])>>
         \o PrettyLoop(data, len, i + 1, indentLevel, inQuotes, tabWidth)

\* getJson().printPretty(tabWidth): what reaches stdout.
printPretty(s, tabWidth) ==
    IF s.length = 0 THEN <<>>
    ELSE PrettyLoop(s.bytes, s.length, 0, 0, FALSE, tabWidth) \o <<Ins(10)>>

\* A JsonStream filled with strings, numbers and nested objects, closed,
\* and printed.
PrettyStrs == {<<120>>, <<99, 32, 100>>, <<120, 92>>, <<34>>}   \* x, c d, x\, "

PrettyWriteString ==
    \E v \in PrettyStrs :
        JStep("Json_writeString", JKey, v, Json_writeString(S, JKey, v))

PrintPretty == JStep("printPretty", NoVal, 2, Res(S, TRUE, printPretty(S, 2)))

PrettyInit == InitWith({JsonMaxCap}, MaxPrettyOps, TRUE)

PrettyNext ==
    \/ PrettyWriteString \/ JsonWriteUint8 \/ JsonWriteObject \/ JsonClose
    \/ PrintPretty

PrettySpec == PrettyInit /\ [][PrettyNext]_vars

\* The printer's output without the characters it put in.
IsText(e) == ~e.ins

RECURSIVE Chars(_)
Chars(out) == IF out = <<>> THEN <<>> ELSE <<Head(out).c>> \o Chars(Tail(out))

Stripped(out) == Chars(SelectSeq(out, IsText))

\* C23: printPretty's output without the newlines and spaces the printer
\* put in is the compact text, character for character.
C23_PrettyReversible ==
    last.op = "printPretty" => Stripped(last.out) = SubSeq(bytes, 1, length)

(* ------------------------- peeking at the stream ----------------------- *)
\* The loops of peekUint32 from their k-th iteration on: getByte(peekPos++)
\* and value |= byte << i, i from 24 down (Big) or from 0 up (Little).
\* canRead(4) has made every getByte succeed; its result is not tested.
RECURSIVE PeekLoop(_, _, _, _)
PeekLoop(s, value, k, peekPos) ==
    IF k > 4 THEN value
    ELSE PeekLoop(s,
                  [value EXCEPT ![IF s.order = "Big" THEN 4 - k + 1 ELSE k]
                                    = getByte(s, peekPos).out[1]],
                  k + 1, peekPos + 1)

\* peekUint32 reading with readUint32.
peekUint32_consuming(s) == readUint32(s)

peekUint32(s) ==
    IF ~canRead(s, 4) THEN Res(s, FALSE, NoVal)
    ELSE Res(s, TRUE, Truncate(PeekLoop(s, Zeros(8), 1, s.readPos), 32))

isSerdeliteBuffer_magic(p) == Res(p.s, p.ret /\ p.out = SERDELITE_MAGIC, NoVal)

isSerdeliteBuffer(s) == isSerdeliteBuffer_magic(peekUint32(s))

PeekUint32 == Step("peekUint32", NoVal, peekUint32(S), {})
IsSerdeliteBuffer == Step("isSerdeliteBuffer", NoVal, isSerdeliteBuffer(S), {})

PeekInit == InitWith({SmallCap, MaxCap}, MaxPeekOps, FALSE)

PeekNext ==
    \/ WriteUint8 \/ WriteUint32 \/ WriteLibraryHeader \/ FromHex
    \/ ReadUint8 \/ ReadUint32 \/ VerifyLibraryHeader \/ ResetReadCursor
    \/ PeekUint32 \/ IsSerdeliteBuffer

PeekSpec == PeekInit /\ [][PeekNext]_vars

\* C24: peekUint32 and isSerdeliteBuffer leave readPos, the length and the
\* bytes as they were, whatever they return; peekUint32 returns what
\* readUint32 would return in the same state, and on success the same value.
C24_PeekIsPure ==
    /\ last.op \in {"peekUint32", "isSerdeliteBuffer"} =>
          /\ readPos = last.pre.readPos
          /\ length = last.pre.length
          /\ bytes = last.pre.bytes
    /\ last.op = "peekUint32" =>
          /\ last.ret = readUint32(last.pre).ret
          /\ last.ret => last.out = readUint32(last.pre).out

\* The bytes 44 4C 56 and the major version of a header peeked in Big order
\* behind the one byte already read.
C24_Witness ==
    /\ last.op = "peekUint32" /\ last.ret /\ order = "Big"
    /\ last.pre.readPos = 1
    /\ last.out = <<SERDELITE_VERSION_MAJOR, 86, 76, 68>>

\* C25: isSerdeliteBuffer returns true exactly when the buffer holds four
\* bytes or more and its first four bytes, indices 0..3, are the magic in
\* the buffer's order, wherever the read cursor stands.
C25_MagicAtStart ==
    last.op = "isSerdeliteBuffer" =>
        (last.ret <=> (length >= 4 /\ SubSeq(bytes, 1, 4) = MagicWire(order)))

(* --------------------------- hex import/export ------------------------- *)
\* const char hexChars[] = "0123456789ABCDEF"
hexChars == <<48, 49, 50, 51, 52, 53, 54, 55, 56, 57, 65, 66, 67, 68, 69, 70>>

\* A destination the caller owns; Null is the null pointer.
Dest == <<>>

\* The for loop of toHex from index i on: two digits for each byte.
RECURSIVE ToHexLoop(_, _)
ToHexLoop(s, i) ==
    IF i >= s.length THEN <<>>
    ELSE <<hexChars[((s.bytes[i + 1] \div 16) % 16) + 1],
           hexChars[(s.bytes[i + 1] % 16) + 1]>> \o ToHexLoop(s, i + 1)

\* toHex writing lowercase digits for 10..15.
toHex_lower(s, dest, destCapacity) ==
    IF dest = Null \/ destCapacity < 2 * s.length + 1 THEN Res(s, FALSE, NoVal)
    ELSE Res(s, TRUE,
             AsTuple([k \in 1..(2 * s.length) |->
                         IF ToHexLoop(s, 0)[k] >= 65 THEN ToHexLoop(s, 0)[k] + 32
                         ELSE ToHexLoop(s, 0)[k]], 2 * s.length) \o <<0>>)

\* toHex(dest, destCapacity): out is what dest holds, the terminator included.
toHex(s, dest, destCapacity) ==
    IF dest = Null \/ destCapacity < 2 * s.length + 1 THEN Res(s, FALSE, NoVal)
    ELSE Res(s, TRUE, ToHexLoop(s, 0) \o <<0>>)

\* The inputs of fromHex: "4a", "4A:5", "4G", "01-02 03", "4:A", "ab-CD:ef",
\* "0102030405060708090A0B", "" and NULL.
HexInputs ==
    {<<52, 97>>, <<52, 65, 58, 53>>, <<52, 71>>,
     <<48, 49, 45, 48, 50, 32, 48, 51>>, <<52, 58, 65>>,
     <<97, 98, 45, 67, 68, 58, 101, 102>>,
     <<48, 49, 48, 50, 48, 51, 48, 52, 48, 53, 48, 54, 48, 55, 48, 56, 48, 57,
       48, 65, 48, 66>>,
     <<>>, Null}

HexFromHex == \E h \in HexInputs : Step("fromHex", h, fromHex(S, h), {})

ToHex ==
    \E d \in {Null, Dest}, cap \in {0, 2 * length, 2 * length + 1, 2 * length + 2} :
        Step("toHex", [dest |-> d, cap |-> cap], toHex(S, d, cap), {})

HexInit == InitWith({SmallCap, MaxCap}, MaxHexOps, FALSE)

HexNext == AddByte \/ SetLength \/ Clear \/ Erase \/ HexFromHex \/ ToHex

HexSpec == HexInit /\ [][HexNext]_vars

\* The bytes each input stands for, written out by hand; Null for an input
\* that is not a sequence of digit pairs.
HexBytes(h) ==
    CASE h = <<52, 97>> -> <<74>>
      [] h = <<48, 49, 45, 48, 50, 32, 48, 51>> -> <<1, 2, 3>>
      [] h = <<97, 98, 45, 67, 68, 58, 101, 102>> -> <<171, 205, 239>>
      [] h = <<48, 49, 48, 50, 48, 51, 48, 52, 48, 53, 48, 54, 48, 55, 48, 56, 48, 57,
               48, 65, 48, 66>> -> <<1, 2, 3, 4, 5, 6, 7, 8, 9, 10, 11>>
      [] h = <<>> -> <<>>
      [] OTHER -> Null

\* C26: fromHex of an input with an odd trailing digit, a non-digit in a
\* pair, a separator inside a pair or more pairs than bytes free returns
\* false and leaves the length as it was; otherwise it returns true, the
\* length grows by the number of pairs and the bytes appended are the
\* values of the pairs in order, separators between pairs ignored.
C26_FromHexAllOrNothing ==
    last.op = "fromHex" =>
        IF \/ HexBytes(last.arg) = Null
           \/ Len(HexBytes(last.arg)) > last.pre.capacity - last.pre.length
        THEN ~last.ret /\ length = last.pre.length /\ KeptBelow
        ELSE /\ last.ret
             /\ length = last.pre.length + Len(HexBytes(last.arg))
             /\ KeptBelow
             /\ Appended = HexBytes(last.arg)

\* "4A:5" refused after its first pair had been appended behind a byte.
C26_Witness ==
    /\ last.op = "fromHex" /\ last.arg = <<52, 65, 58, 53>> /\ ~last.ret
    /\ last.pre.length = 1 /\ length = 1 /\ bytes[2] = 74

\* The digit of a nibble.
DigitOf(n) == IF n < 10 THEN 48 + n ELSE 65 + (n - 10)

\* The text of a C string: its characters before the terminator.
Text(str) == SubSeq(str, 1, Len(str) - 1)

\* C27: toHex fails exactly when the destination is null or smaller than
\* 2 * length + 1; otherwise it stores 2 * length uppercase digits and a
\* terminator and leaves the buffer alone, and fromHex of that text on the
\* cleared buffer returns true and gives the same length and bytes.
C27_HexRoundTrip ==
    last.op = "toHex" =>
        /\ length = last.pre.length /\ bytes = last.pre.bytes
        /\ last.ret <=> (last.arg.dest # Null /\ last.arg.cap >= 2 * length + 1)
        /\ last.ret =>
              /\ Len(last.out) = 2 * length + 1
              /\ last.out[2 * length + 1] = 0
              /\ \A i \in 1..length :
                    /\ last.out[2 * i - 1] = DigitOf(bytes[i] \div 16)
                    /\ last.out[2 * i] = DigitOf(bytes[i] % 16)
              /\ fromHex(clear(S).s, Text(last.out)).ret
              /\ fromHex(clear(S).s, Text(last.out)).s.length = length
              /\ SubSeq(fromHex(clear(S).s, Text(last.out)).s.bytes, 1, length)
                     = SubSeq(bytes, 1, length)

\* The bytes AB CD EF exported as "ABCDEF".
C27_Witness ==
    /\ last.op = "toHex" /\ last.ret
    /\ last.out = <<65, 66, 67, 68, 69, 70, 0>>

\* C28: clear() sets the length to 0 and leaves every byte, the capacity
\* and the endian tag alone, so that setLength(old length) brings the old
\* content back; erase() sets the length to 0 and every byte of the
\* capacity to zero and leaves the capacity and the endian tag alone.
C28_ClearAndErase ==
    /\ last.op = "clear" =>
          /\ length = 0
          /\ bytes = last.pre.bytes
          /\ capacity = last.pre.capacity /\ order = last.pre.order
          /\ setLength(S, last.pre.length).ret
          /\ setLength(S, last.pre.length).s.length = last.pre.length
          /\ setLength(S, last.pre.length).s.bytes = last.pre.bytes
    /\ last.op = "erase" =>
          /\ length = 0
          /\ Len(bytes) = capacity /\ \A i \in 1..capacity : bytes[i] = 0
          /\ capacity = last.pre.capacity /\ order = last.pre.order
    /\ last.op = "setLength" =>
          /\ last.ret <=> last.arg <= capacity
          /\ bytes = last.pre.bytes
          /\ length = (IF last.ret THEN last.arg ELSE last.pre.length)

\* clear() on a buffer that holds bytes.
C28_Witness ==
    /\ last.op = "clear" /\ last.pre.length = 3 /\ bytes[1] = 171 /\ length = 0

(* --------------------------- null destinations ------------------------- *)
\* The for loop of toString from index i on: a printable byte (32..126) is
\* copied, any other byte becomes '.'.
RECURSIVE ToStringLoop(_, _, _)
ToStringLoop(s, i, copyLen) ==
    IF i >= copyLen THEN <<>>
    ELSE <<IF s.bytes[i + 1] >= 32 /\ s.bytes[i + 1] <= 126 THEN s.bytes[i + 1] ELSE 46>>
         \o ToStringLoop(s, i + 1, copyLen)

\* toString(dest, destCapacity): out is what dest holds, the terminator included.
toString(s, dest, destCapacity) ==
    IF dest = Null \/ destCapacity = 0 THEN Res(s, FALSE, NoVal)
    ELSE Res(s, TRUE,
             ToStringLoop(s, 0, IF s.length < destCapacity - 1 THEN s.length
                                ELSE destCapacity - 1) \o <<0>>)

\* What a store through the null pointer, which is undefined, can come to:
\* the store is carried out and the call goes on, or the process is stopped
\* at the store and the call never returns.
Stored == <<-2>>
Trapped == <<-3>>

\* readChars(nullptr, length): dest is not tested; the first pass of the
\* loop reads a byte and stores it through dest.
readChars_null(s, len) ==
    IF ~canRead(s, len) THEN {Res(s, FALSE, NoVal)}
    ELSE IF len = 0 THEN {Res(s, TRUE, NoVal)}
    ELSE {Res(readUint8(s).s, FALSE, Trapped), Res(readChars(s, len).s, TRUE, Stored)}

\* readString(nullptr, destCapacity) after readChars (c): dest[len] = '\0'
\* is a store through dest.
readString_null_terminate(c) ==
    IF ~c.ret THEN {c}
    ELSE {Res(c.s, FALSE, Trapped), Res(c.s, TRUE, Stored)}

\* readString(nullptr, destCapacity) after readUint16 (r).
readString_null_chars(r, destCapacity) ==
    IF ~r.ret THEN {Res(r.s, FALSE, NoVal)}
    ELSE IF destCapacity < U16Value(r.out) + 1 THEN {Res(r.s, FALSE, NoVal)}
    ELSE UNION {readString_null_terminate(c) :
                    c \in readChars_null(r.s, U16Value(r.out))}

readString_null(s, destCapacity) == readString_null_chars(readUint16(s), destCapacity)

\* A call that stops the process: no call follows it.
Halt(op, arg, r) ==
    /\ nops < limit
    /\ bytes' = r.s.bytes
    /\ length' = r.s.length
    /\ capacity' = r.s.capacity
    /\ order' = r.s.order
    /\ readPos' = r.s.readPos
    /\ isFirstField' = r.s.isFirstField
    /\ isClosed' = r.s.isClosed
    /\ last' = [op |-> op, arg |-> arg, ret |-> r.ret, out |-> r.out, pre |-> S]
    /\ wlog' = {e \in wlog : Intact(e, S, r.s)}
    /\ jlog' = jlog
    /\ nops' = limit
    /\ limit' = limit

NullStep(op, arg, r) == IF r.out = Trapped THEN Halt(op, arg, r) ELSE Step(op, arg, r, {})

ReadCharsNull ==
    \E len \in {0, 2} : \E r \in readChars_null(S, len) :
        NullStep("readChars", [dest |-> Null, len |-> len], r)

ReadStringNull ==
    \E cap \in {0, 1, 4} : \E r \in readString_null(S, cap) :
        NullStep("readString", [dest |-> Null, cap |-> cap], r)

BufferToString ==
    \E d \in {Null, Dest}, cap \in {0, 1, 4} :
        Step("toString", [dest |-> d, cap |-> cap], toString(S, d, cap), {})

NullInit == InitWith({SmallCap, MaxCap}, MaxNullOps, FALSE)

NullNext ==
    \/ WriteUint16 \/ WriteString \/ AddByte
    \/ ReadCharsNull \/ ReadStringNull \/ ToHex \/ BufferToString

NullSpec == NullInit /\ [][NullNext]_vars

\* C29: readChars, readString, toHex and toString called with a null
\* destination return false, store nothing through the pointer and leave
\* readPos as it was.
C29_NullDestination ==
    (/\ last.op \in {"readChars", "readString", "toHex", "toString"}
     /\ last.arg.dest = Null)
    => /\ ~last.ret
       /\ last.out = NoVal
       /\ readPos = last.pre.readPos

(* --------------------------- non-finite numbers ------------------------ *)
\* Bit patterns of float: NaN, +infinity, -infinity, a NaN with the sign
\* bit and a low mantissa bit set, and 1.5f; of double: NaN, +infinity,
\* -infinity and 1.5.
NonFiniteFloats ==
    {<<0, 0, 192, 127>>, <<0, 0, 128, 127>>, <<0, 0, 128, 255>>, <<1, 0, 128, 255>>}

NonFiniteDoubles ==
    {<<0, 0, 0, 0, 0, 0, 248, 127>>, <<0, 0, 0, 0, 0, 0, 240, 127>>,
     <<0, 0, 0, 0, 0, 0, 240, 255>>}

FloatWriteFloat ==
    \E v \in NonFiniteFloats \cup {<<0, 0, 192, 63>>} :
        JStep("Json_writeFloat", JKey, v, Json_writeFloat(S, JKey, v))

FloatWriteDouble ==
    \E v \in NonFiniteDoubles \cup {<<0, 0, 0, 0, 0, 0, 248, 63>>} :
        JStep("Json_writeDouble", JKey, v, Json_writeDouble(S, JKey, v))

FloatInit == InitWith({JsonSmallCap, JsonMaxCap}, MaxFloatOps, TRUE)

FloatNext == FloatWriteFloat \/ FloatWriteDouble \/ JsonWriteUint8 \/ JsonClose

FloatSpec == FloatInit /\ [][FloatNext]_vars

\* The characters of a field before its value: a comma after an earlier
\* field, the key in quotes and a colon.
FieldPrefix ==
    (IF last.pre.isFirstField THEN <<>> ELSE <<COMMA>>)
        \o <<QUOTE>> \o last.arg.key \o <<QUOTE, COLON>>

\* C30: writeFloat and writeDouble of NaN, +infinity or -infinity emit the
\* key and the four characters null; a call that finds room for the key but
\* not for the value returns false with the length restored.
C30_NonFiniteIsNull ==
    last.op \in {"Json_writeFloat", "Json_writeDouble"} =>
        /\ (last.ret /\ last.arg.val \in NonFiniteFloats \cup NonFiniteDoubles) =>
              (KeptBelow /\ Appended = FieldPrefix \o <<110, 117, 108, 108>>)
        /\ (/\ ~last.ret /\ ~last.pre.isClosed
            /\ Len(FieldPrefix) <= last.pre.capacity - last.pre.length)
           => length = last.pre.length

\* -infinity written as null behind an earlier field.
C30_Witness ==
    /\ last.op = "Json_writeFloat" /\ last.ret /\ last.arg.val = <<0, 0, 128, 255>>
    /\ ~last.pre.isFirstField
    /\ SubSeq(bytes, length - 4, length) = <<58, 110, 117, 108, 108>>

(* ------------------------------ the cursors ---------------------------- *)
\* C31: readPos <= length in every reachable state, under ByteStream calls
\* interleaved with addByte, setLength, clear, erase and fromHex on the
\* same buffer.
C31_ReadPosWithinLength == readPos <= length

\* Every ByteStream and ByteBuffer call, the peeks included, on one buffer.
CursorInit == InitWith({MaxCap}, MaxCursorOps, FALSE)

CursorNext == Next \/ PeekUint32 \/ IsSerdeliteBuffer

CursorSpec == CursorInit /\ [][CursorNext]_vars

StreamWrites ==
    {"write" \o T : T \in PrimTypes}
        \cup {"writeChars", "writeString", "writeLibraryHeader", "writeObject"}

StreamReads ==
    {"read" \o T : T \in PrimTypes}
        \cup {"readChars", "readString", "readObject", "verifyLibraryHeader",
              "resetReadCursor", "peekUint32", "isSerdeliteBuffer"}

\* C32: no ByteStream write, successful or failed, changes readPos; no
\* read, peek, verifyLibraryHeader or resetReadCursor changes the length or
\* a byte of the buffer; a successful write appends at the old length and
\* leaves the bytes below it alone.
C32_IndependentCursors ==
    /\ last.op \in StreamWrites =>
          /\ readPos = last.pre.readPos
          /\ last.ret => (length >= last.pre.length /\ KeptBelow)
    /\ last.op \in StreamReads =>
          (length = last.pre.length /\ bytes = last.pre.bytes)

\* A write made after a read had moved the read cursor.
C32_Witness ==
    /\ last.op \in StreamWrites /\ last.ret
    /\ last.pre.readPos > 0 /\ length > last.pre.length

(* ------------------------- a writer and a reader ----------------------- *)
\* One stream written and read along a schedule fixed at the start: jlog
\* holds the values in the order they are to be written, the k-th read has
\* the type of the k-th write, and neither resetReadCursor nor a
\* truncation of the buffer is called.
FifoItems ==
    {[type |-> "Uint8", val |-> <<7>>], [type |-> "Uint8", val |-> <<9>>],
     [type |-> "Uint16", val |-> <<52, 18>>], [type |-> "Int32", val |-> <<1, 0, 0, 128>>]}

FifoInit ==
    /\ capacity \in {SmallCap, MaxCap}
    /\ order \in Orders
    /\ bytes = Zeros(capacity)
    /\ length = 0
    /\ readPos = 0
    /\ isFirstField = TRUE
    /\ isClosed = FALSE
    /\ last = [op |-> "init", arg |-> NoVal, ret |-> TRUE, out |-> NoVal, pre |-> S]
    /\ wlog = {}
    /\ jlog \in [1..FifoLen -> FifoItems]
    /\ nops = 0
    /\ limit = MaxFifoOps

\* The number of bytes of the first k values of the schedule.
RECURSIVE Offset(_)
Offset(k) == IF k = 0 THEN 0 ELSE Offset(k - 1) + PrimBits[jlog[k].type] \div 8

\* The number of values of the schedule that lie within the first n bytes.
Count(n) == Cardinality({k \in 1..Len(jlog) : Offset(k) <= n})

FifoWriteOf(s, item) ==
    CASE item.type = "Uint8" -> writeUint8(s, item.val)
      [] item.type = "Uint16" -> writeUint16(s, item.val)
      [] item.type = "Int32" -> writeInt32(s, item.val)

FifoReadOf(s, type) ==
    CASE type = "Uint8" -> readUint8(s)
      [] type = "Uint16" -> readUint16(s)
      [] type = "Int32" -> readInt32(s)

\* The next write of the schedule.
FifoWrite ==
    /\ Count(length) < Len(jlog)
    /\ Step("write", jlog[Count(length) + 1],
            FifoWriteOf(S, jlog[Count(length) + 1]), {})

\* The next read of the schedule, made whether its value is there or not.
FifoRead ==
    /\ Count(readPos) < Len(jlog)
    /\ Step("read", jlog[Count(readPos) + 1].type,
            FifoReadOf(S, jlog[Count(readPos) + 1].type), {})

FifoNext == FifoWrite \/ FifoRead

FifoSpec == FifoInit /\ [][FifoNext]_vars

\* C33: along the schedule the k-th successful read returns the k-th value
\* written; a read made before its value is written fails and consumes
\* nothing, and succeeds when made again after the write.
C33_ScheduledReads ==
    last.op = "read" =>
        IF Offset(Count(last.pre.readPos) + 1) <= last.pre.length
        THEN /\ last.ret
             /\ last.out = jlog[Count(last.pre.readPos) + 1].val
             /\ readPos = Offset(Count(last.pre.readPos) + 1)
        ELSE ~last.ret /\ readPos = last.pre.readPos

\* Two values written and read in five calls none of which was a failed
\* write: one read was made before its value was written, and made again.
C33_Witness ==
    /\ last.op = "read" /\ last.ret /\ nops = 5
    /\ readPos = Offset(2) /\ length = Offset(2) /\ Offset(3) <= capacity
    /\ jlog[1].val # jlog[2].val /\ jlog[2].type = "Int32"

\* C34: when readObject returns false because the stream ends after some of
\* the object's fields were read, readPos equals its value before the call.
C34_ReadObjectRestores ==
    (last.op = "readObject" /\ ~last.ret) => readPos = last.pre.readPos

\* C35: in every state of a JsonStream that is not closed, isFirstField is
\* true exactly when the open object has no field in the region, that is
\* when the last byte of the region is its opening brace; so no comma ever
\* follows an opening brace directly.
C35_FirstFieldTracksBrace ==
    (~isClosed /\ length > 0) =>
        /\ isFirstField <=> (bytes[length] = LBRACE)
        /\ \A i \in 1..(length - 1) : ~(bytes[i] = LBRACE /\ bytes[i + 1] = COMMA)

(* ------------------- a whole object as the JSON text ------------------- *)
\* The objects of examples/nested_json.cpp, with names that hold braces,
\* a quote and a backslash.
TopObjs == {Stats(<<15, 0, 0, 0>>, <<7, 0, 0, 0>>),
            NPC(<<77>>, Stats(<<15, 0, 0, 0>>, <<7, 0, 0, 0>>)),          \* "M"
            NPC(<<125, 123, 34>>, Stats(<<1, 0, 0, 0>>, <<0, 0, 0, 0>>)), \* "}{\""
            NPC(<<123, 92>>, Stats(<<1, 0, 0, 0>>, <<0, 0, 0, 0>>))}      \* "{\\"

\* obj.toJson(jStream), the call of main in examples/nested_json.cpp.
TopToJson == \E obj \in TopObjs : JStep("toJson", NoVal, obj, toJson(S, obj))

TopInit == InitWith(JsonSmallCap..JsonMaxCap, MaxTopOps, TRUE)
TopNext == TopToJson \/ JsonClose
TopSpec == TopInit /\ [][TopNext]_vars

\* Where a reader of JSON text is after the first i characters of r: outside
\* any string literal, inside one, or inside one just after a backslash.
RECURSIVE QuoteState(_, _)
QuoteState(r, i) ==
    IF i = 0 THEN "out"
    ELSE LET q == QuoteState(r, i - 1)
         IN  IF q = "esc" THEN "in"
             ELSE IF q = "in"
                  THEN IF r[i] = BACKSLASH THEN "esc"
                       ELSE IF r[i] = QUOTE THEN "out" ELSE "in"
                  ELSE IF r[i] = QUOTE THEN "in" ELSE "out"

\* The number of characters c outside string literals among the first n.
Outside(r, c, n) ==
    Cardinality({i \in 1..n : r[i] = c /\ QuoteState(r, i - 1) = "out"})

\* The number of objects in obj, itself included.
ObjectCount(obj) == IF obj.cls = "NPC" THEN 2 ELSE 1

\* C36: after a successful toJson on a fresh JsonStream over an empty
\* buffer the region starts with an opening and ends with a closing brace,
\* has as many opening as closing braces outside string literals, one
\* closing brace for each object, no prefix with more closing than opening
\* braces, and the stream is closed.
C36_BalancedBraces ==
    (last.op = "toJson" /\ last.ret /\ Len(jlog) = 1) =>
        LET r == SubSeq(bytes, 1, length)
        IN  /\ r[1] = LBRACE
            /\ r[length] = RBRACE
            /\ Outside(r, LBRACE, length) = Outside(r, RBRACE, length)
            /\ Outside(r, RBRACE, length) = ObjectCount(last.arg.val)
            /\ \A n \in 1..length :
                   Outside(r, LBRACE, n) >= Outside(r, RBRACE, n)
            /\ isClosed

\* A nested object whose name holds both braces and a quote was written.
C36_Witness ==
    /\ last.op = "toJson" /\ last.ret /\ Len(jlog) = 1
    /\ last.arg.val.cls = "NPC" /\ last.arg.val.name = <<125, 123, 34>>
    /\ Cardinality({i \in 1..length : bytes[i] = RBRACE}) = 3

(* ------------------------- keys of any content ------------------------- *)
\* Keys and values with and without a quote and a backslash.
KeyStrs == {<<97>>, <<97, 34, 98>>, <<34>>, <<92>>, <<>>}    \* a  a"b  "  \  (empty)
KeyVals == {<<120>>, <<34>>, <<120, 34, 121>>, <<120, 92>>}  \* x  "  x"y  x\

KeyWriteString ==
    \E k \in KeyStrs : \E v \in KeyVals :
        JStep("Json_writeString", k, v, Json_writeString(S, k, v))

KeyInit == InitWith({JsonMaxCap}, MaxKeyOps, TRUE)
KeyNext == KeyWriteString
KeySpec == KeyInit /\ [][KeyNext]_vars

\* The places of the four delimiting quotes in the text a successful
\* writeString appended: around the key and around the value.
Delimiters ==
    LET p == IF last.pre.isFirstField THEN 1 ELSE 2
        k == Len(last.arg.key)
    IN  {p, p + k + 1, p + k + 3, Len(Appended)}

\* C37: in the text of a successful field write, every double quote that is
\* not a delimiter of the key or of the string value is directly preceded
\* by a backslash.
C37_QuotesEscaped ==
    (last.op = "Json_writeString" /\ last.ret) =>
        \A i \in (1..Len(Appended)) \ Delimiters :
            Appended[i] = QUOTE => (i > 1 /\ Appended[i - 1] = BACKSLASH)

(* --------------------- byte counts of the full width ------------------- *)
\* A size_t of 64 bits as its eight base-256 digits, least significant
\* first: the small count n, and SIZE_MAX.
Size(n) == <<n, 0, 0, 0, 0, 0, 0, 0>>
SizeMax == <<255, 255, 255, 255, 255, 255, 255, 255>>

\* a + b in size_t: the digits of the sum from digit i on, the carry out of
\* the last digit dropped.
RECURSIVE SizeAddFrom(_, _, _, _)
SizeAddFrom(a, b, i, carry) ==
    IF i > Len(a) THEN <<>>
    ELSE <<(a[i] + b[i] + carry) % 256>>
             \o SizeAddFrom(a, b, i + 1, (a[i] + b[i] + carry) \div 256)

SizeAdd(a, b) == SizeAddFrom(a, b, 1, 0)

\* a <= b in size_t, decided from digit i down.
RECURSIVE SizeLeqFrom(_, _, _)
SizeLeqFrom(a, b, i) ==
    IF i = 0 THEN TRUE
    ELSE IF a[i] # b[i] THEN a[i] < b[i]
    ELSE SizeLeqFrom(a, b, i - 1)

SizeLeq(a, b) == SizeLeqFrom(a, b, Len(a))

\* canRead with bytesCount any size_t: readPos + bytesCount is a sum in
\* size_t.
canRead_size_t(s, bytesCount) ==
    SizeLeq(SizeAdd(Size(s.readPos), bytesCount), Size(getSize(s)))

\* readChars(dest, length) into an array of destSize characters, length any
\* size_t. When canRead lets a length pass that is larger than the bytes
\* left or than the array, the loop goes on after the last byte: readUint8
\* fails without setting byte, and dest[i] is stored behind the array.
readChars_size_t(s, destSize, len) ==
    IF ~canRead_size_t(s, len) THEN {Res(s, FALSE, NoVal)}
    ELSE IF s.readPos <= getSize(s) /\ SizeLeq(len, Size(getSize(s) - s.readPos))
            /\ SizeLeq(len, Size(destSize))
    THEN {readChars(s, len[1])}
    ELSE LET e == [s EXCEPT !.readPos = IF s.readPos <= getSize(s)
                                         THEN getSize(s) ELSE s.readPos]
         IN  {Res(e, FALSE, Trapped), Res(e, TRUE, Stored)}

\* 0, 1, 2, SIZE_MAX and SIZE_MAX - 1.
WideCounts == {Size(0), Size(1), Size(2), SizeMax, SizeAdd(SizeMax, SizeMax)}

CanRead ==
    \E n \in WideCounts :
        Step("canRead", n, Res(S, canRead_size_t(S, n), NoVal), {})

ReadCharsWide ==
    \E n \in WideCounts : \E r \in readChars_size_t(S, MaxCap, n) :
        NullStep("readChars", n, r)

WrapInit == InitWith({SmallCap, MaxCap}, MaxWrapOps, FALSE)
WrapNext == WriteUint8 \/ WriteUint16 \/ ReadUint8 \/ CanRead \/ ReadCharsWide
WrapSpec == WrapInit /\ [][WrapNext]_vars

\* The count n is at most the bytes between readPos and the length in s.
Available(s, n) ==
    s.readPos <= s.length /\ SizeLeq(n, Size(s.length - s.readPos))

\* C38: canRead(n) returns true exactly when n <= length - readPos, for
\* every n of size_t, and readChars(dest, n) never succeeds for an n larger
\* than the bytes available.
C38_CanReadExact ==
    /\ last.op = "canRead" => (last.ret <=> Available(last.pre, last.arg))
    /\ (last.op = "readChars" /\ last.ret) => Available(last.pre, last.arg)

(* ------------------- serializing again after clear() ------------------- *)
RepeatObjs == Objs \cup {Item(<<20, 0>>, <<1>>)}

\* The body of the loops of testLoop: buffer.clear(); s.writeObject(obj).
ClearWriteObject ==
    \E obj \in RepeatObjs :
        LET r == writeObject(clear(S).s, obj)
        IN  Step("clearWriteObject", obj, r,
                 IF r.ret THEN {[pos |-> 0, width |-> r.s.length,
                                 type |-> obj.cls, val |-> Flatten(obj)]}
                 ELSE {})

RepeatInit == InitWith({MaxCap}, MaxRepeatOps, FALSE)
RepeatNext ==
    \/ ClearWriteObject \/ WriteUint16 \/ AddByte
    \/ ReadObject \/ ReadUint8 \/ ResetReadCursor
RepeatSpec == RepeatInit /\ [][RepeatNext]_vars

\* C39: clear() followed by writeObject(obj) on a buffer large enough
\* returns true and leaves the length and the bytes below it that the
\* object alone determines, whatever the buffer held before and however
\* often it is repeated; a readObject made afterwards at readPos 0 succeeds
\* and yields the object.
C39_ClearThenWrite ==
    /\ (last.op = "clearWriteObject"
            /\ Len(ObjectWire(last.arg, order)) <= capacity) =>
          /\ last.ret
          /\ length = Len(ObjectWire(last.arg, order))
          /\ SubSeq(bytes, 1, length) = ObjectWire(last.arg, order)
    /\ (last.op = "readObject" /\ last.pre.readPos = 0
            /\ \E e \in wlog : e.pos = 0 /\ e.type = last.arg.cls) =>
          /\ last.ret
          /\ \A e \in wlog : (e.pos = 0 /\ e.type = last.arg.cls) =>
                 (Flatten(last.out) = e.val /\ readPos = e.width)

\* An Item read back after it was written, following a clear, over the
\* Inventory of an earlier repetition, whose last bytes are still there.
C39_Witness ==
    /\ last.op = "readObject" /\ last.ret /\ last.out.cls = "Item"
    /\ last.out = Item(<<20, 0>>, <<1>>)
    /\ length = 3 /\ last.pre.readPos = 0
    /\ \E inv \in Objs :
          /\ inv.cls = "Inventory"
          /\ SubSeq(bytes, 4, 10) = SubSeq(ObjectWire(inv, order), 4, 10)

=============================================================================
